---- MODULE Spec2Model ----
(***************************************************************************)
(* Model of the collection-to-publication pipeline of fap-news             *)
(* (src/bot.py, with the ledger of src/db.py and the sink of               *)
(* src/poster.py).                                                         *)
(*                                                                         *)
(* Two periodic jobs run on one asyncio event loop: the collection cycle   *)
(* NewsBot.process_once and the post tick NewsBot.process_post_queue.      *)
(* Each action below is the code that runs between two suspension points   *)
(* (await) of one of the two coroutines, so the interleavings of the       *)
(* actions are the interleavings the event loop can produce.               *)
(***************************************************************************)
EXTENDS Integers, Sequences, FiniteSets, TLC

(***************************************************************************)
(* Bounds of the model.                                                    *)
(***************************************************************************)
\* number of runs of process_once that are explored
MaxCycles == 2
\* number of runs of process_post_queue that are explored
MaxTicks == 2
\* number of items a cycle has in hand after deduplication
MaxBatch == 2
\* the deque's maxlen: bot.py:42 sets 50, the model scales it down
DequeMaxLen == 2
\* length of the input lists of the priority selector (SpecSelect)
MaxSelLen == 3
\* largest max_sources_per_cycle given to the priority selector (SpecSelect)
MaxSelSources == 3
\* calls of mark_published made for one (id, source) pair (SpecLedger)
MaxMarks == 2
\* calls of check_urgency and check_news_freshness explored (SpecClassifier)
MaxChecks == 3
\* items in a batch handed to the deduplicator
MaxDedupLen == 3
\* cycles of the collection stage followed on their own
MaxGatherCycles == 1
\* words of the text first given to the importance scorer
MaxWords == 4
\* characters of a text given to the similarity function
MaxTextLen == 4
\* items of a cycle whose ledger checks may raise
MaxFaultItems == 2
\* saves of config.json while the bot runs
MaxConfigSaves == 2
\* collection cycles of the bot whose configuration is followed
MaxReloadCycles == 3
\* items given to the age filter
MaxAgeItems == 2
\* latest time of the clock and of a timestamp, in minutes
MaxStamp == 2
\* post ticks followed when the ledger write may raise
MaxFaultTicks == 3
\* entries enqueued in a run in which the post ticks never stop
MaxLiveEntries == 4
\* the base lengths are the multiples of BaseStep up to MaxBaseSteps of them
MaxBaseSteps == 14
BaseStep == 100

(***************************************************************************)
(* Items.  Only the idempotency key (id, source) of parser.NewsItem is     *)
(* kept; the text of an item matters to the classifier only, and the       *)
(* classifier is an external collaborator whose answers are chosen         *)
(* nondeterministically.                                                   *)
(***************************************************************************)
Sources == {"A", "B"}

\* the items the collectors can deliver: one story carried by two sources
Items == {[id |-> 1, source |-> "A"], [id |-> 1, source |-> "B"]}

Min(a, b) == IF a <= b THEN a ELSE b

\* Python slices s[:n] and s[n:] for n >= 0
Take(s, n) == IF n >= Len(s) THEN s ELSE SubSeq(s, 1, n)

Drop(s, n) == IF n >= Len(s) THEN <<>> ELSE SubSeq(s, n + 1, Len(s))

Range(s) == {s[k] : k \in 1..Len(s)}

\* sequences without repetition over a set, of length at most n
RECURSIVE DistinctSeqs(_, _)
DistinctSeqs(S, n) ==
    IF n = 0 THEN {<<>>}
    ELSE LET shorter == DistinctSeqs(S, n - 1)
             ext == {p \in shorter \X S : Len(p[1]) = n - 1 /\ p[2] \notin Range(p[1])}
         IN shorter \cup {Append(p[1], p[2]) : p \in ext}

(***************************************************************************)
(* Configuration: the fields of config.json the pipeline reads.            *)
(*   sources          list of source entries; an entry may or may not      *)
(*                    carry a "priority" key (has_priority)                *)
(*   high_priority, medium_priority, low_priority                          *)
(*                    the name lists of the "source_priority" section      *)
(***************************************************************************)
SourceEntry(n, h, p) == [name |-> n, has_priority |-> h, priority |-> p]

\* source.get("priority", 2) and the final default of get_source_priority
DefaultPriority == 2

\* index of the first entry of sources whose name is source_name, 0 if none
FirstEntry(sources, source_name) ==
    IF \E k \in 1..Len(sources) : sources[k].name = source_name
    THEN CHOOSE k \in 1..Len(sources) :
            /\ sources[k].name = source_name
            /\ \A j \in 1..(k - 1) : sources[j].name # source_name
    ELSE 0

\* the resolution order as specified: an entry without a priority key falls
\* back to the name lists
PriorityAsSpecified(source_name, cfg) ==
    LET k == FirstEntry(cfg.sources, source_name)
    IN IF k # 0 /\ cfg.sources[k].has_priority THEN cfg.sources[k].priority
       ELSE IF source_name \in cfg.high_priority THEN 3
       ELSE IF source_name \in cfg.medium_priority THEN 2
       ELSE IF source_name \in cfg.low_priority THEN 1
       ELSE DefaultPriority

\* NewsBot.get_source_priority
get_source_priority(source_name, cfg) ==
    LET k == FirstEntry(cfg.sources, source_name)
    IN IF k # 0
       THEN (IF cfg.sources[k].has_priority THEN cfg.sources[k].priority
                                            ELSE DefaultPriority)
       ELSE IF source_name \in cfg.high_priority THEN 3
       ELSE IF source_name \in cfg.medium_priority THEN 2
       ELSE IF source_name \in cfg.low_priority THEN 1
       ELSE DefaultPriority

\* keys of items_by_source in insertion order: sources by first appearance
RECURSIVE SourcesInOrder(_)
SourcesInOrder(items) ==
    IF items = <<>> THEN <<>>
    ELSE LET front == SourcesInOrder(SubSeq(items, 1, Len(items) - 1))
             s == items[Len(items)].source
         IN IF s \in Range(front) THEN front ELSE Append(front, s)

\* items_by_source[source][0]
FirstItemOf(items, source) ==
    items[CHOOSE k \in 1..Len(items) :
            /\ items[k].source = source
            /\ \A j \in 1..(k - 1) : items[j].source # source]

\* source_priorities: the dict built from the keys of items_by_source
SourcePriorities(items, cfg) ==
    [s \in Range(SourcesInOrder(items)) |-> get_source_priority(s, cfg)]

\* one insertion of a stable sort by descending key: x goes behind every
\* element whose key is greater than or equal to its own
InsertDesc(sorted, x, prio) ==
    LET n == Cardinality({k \in 1..Len(sorted) : prio[sorted[k]] >= prio[x]})
    IN SubSeq(sorted, 1, n) \o <<x>> \o SubSeq(sorted, n + 1, Len(sorted))

\* sorted(keys, key=source_priorities.get, reverse=True): stable, descending
RECURSIVE SortedDesc(_, _)
SortedDesc(s, prio) ==
    IF s = <<>> THEN <<>>
    ELSE InsertDesc(SortedDesc(SubSeq(s, 1, Len(s) - 1), prio), s[Len(s)], prio)

\* the selection loop of _select_items_by_priority (bot.py:378-383)
RECURSIVE SelectLoop(_, _, _, _, _)
SelectLoop(sorted_sources, items, max_sources, selected, sources_used) ==
    IF sorted_sources = <<>> \/ sources_used >= max_sources THEN selected
    ELSE SelectLoop(Tail(sorted_sources), items, max_sources,
                    Append(selected, FirstItemOf(items, Head(sorted_sources))),
                    sources_used + 1)

\* mutant: the loop breaks one source too late (> instead of >=)
select_items_off_by_one(items, cfg) ==
    SelectLoop(SortedDesc(SourcesInOrder(items), SourcePriorities(items, cfg)),
               items, cfg.max_sources_per_cycle + 1, <<>>, 0)

\* mutant: sources are taken in order of appearance, not by priority
select_items_unsorted(items, cfg) ==
    SelectLoop(SourcesInOrder(items), items, cfg.max_sources_per_cycle, <<>>, 0)

\* NewsBot._select_items_by_priority
select_items_by_priority(items, cfg) ==
    SelectLoop(SortedDesc(SourcesInOrder(items), SourcePriorities(items, cfg)),
               items, cfg.max_sources_per_cycle, <<>>, 0)

(***************************************************************************)
(* The idempotency ledger (src/db.py, table "published", UNIQUE(news_id,   *)
(* source)).  A row is "new" when it was created less than 30 days ago and *)
(* "old" afterwards; "none" means there is no row.                         *)
(***************************************************************************)
EmptyLedger == [i \in Items |-> "none"]

\* db.is_published: SELECT 1 ... WHERE news_id = ? AND source = ?
is_published(led, i) == led[i] # "none"

\* cursor.rowcount > 0 (db.py:196-201): True when the row was inserted
mark_published_returns(led, i) == led[i] = "none"

\* mutant: INSERT OR REPLACE, the row of a marked pair is written anew
mark_published_replace(led, i) == [led EXCEPT ![i] = "new"]

\* mutant: the row is keyed by news_id alone
mark_published_by_id(led, i) ==
    [j \in DOMAIN led |-> IF j.id = i.id /\ led[j] = "none" THEN "new" ELSE led[j]]

\* mutant: the ledger write is lost
mark_published_lost(led, i) == led

\* db.mark_published: INSERT OR IGNORE
mark_published(led, i) ==
    IF led[i] = "none" THEN [led EXCEPT ![i] = "new"] ELSE led

\* mutant: mark_published is reached whether or not post_news_item raised
LedgerAfterPostAlways(ok, led, i) == mark_published(led, i)

\* try: await post_news_item(...); mark_published(...) except: ...
\* (bot.py:168-174 and 191-193): the ledger write is skipped when the post raised
LedgerAfterPost(ok, led, i) == IF ok THEN mark_published(led, i) ELSE led

\* db.cleanup_old_entries(days=30): DELETE ... WHERE created_at < now - 30 days
cleanup_old_entries(led) ==
    [i \in Items |-> IF led[i] = "old" THEN "none" ELSE led[i]]

\* [item for item in items if not is_published(item.id, item.source)]
Unpublished(led, its) == SelectSeq(its, LAMBDA i : ~is_published(led, i))

(***************************************************************************)
(* The post queue: deque(maxlen=...) of (item, config, token, channel_id). *)
(* The configuration of a run never changes, so an entry is its item; the  *)
(* field tries is a history field counting the failed publish attempts of  *)
(* the entry (the code keeps no such counter).                             *)
(***************************************************************************)
Entry(i, t) == [item |-> i, tries |-> t]

\* mutant: a full deque refuses the new entry instead of dropping its head
DequeAppendKeepOld(q, e) ==
    IF Len(q) >= DequeMaxLen THEN q ELSE Append(q, e)

\* deque.append on a deque with maxlen: a full deque drops its leftmost entry
DequeAppend(q, e) ==
    IF Len(q) >= DequeMaxLen THEN Append(Tail(q), e) ELSE Append(q, e)

\* for item in selected_items: post_queue.append(...)   (bot.py:295-296)
RECURSIVE DequeExtend(_, _)
DequeExtend(q, es) ==
    IF es = <<>> THEN q ELSE DequeExtend(DequeAppend(q, Head(es)), Tail(es))

(***************************************************************************)
(* The classifier of ai_summarizer.py.  A text (title, content) is known   *)
(* by what the two checks look for in it: a keyword of urgency_keywords    *)
(* and a keyword of time_keywords.  A reply of the external service is an  *)
(* exception, an empty completion, or a text known by which of the answer  *)
(* words it contains.  The callers test is_enabled() first (bot.py:117 and *)
(* bot.py:316), so the checks run with enabled set and a client.           *)
(***************************************************************************)
Texts == [urgent_kw : BOOLEAN, time_ref : BOOLEAN]

Kinds == {"urgency", "freshness"}

AnswerWords == {"DA", "NET", "YES", "NO"}

Replies ==
    {[kind |-> "raise", words |-> {}], [kind |-> "empty", words |-> {}]}
    \cup {[kind |-> "text", words |-> w] : w \in SUBSET AnswerWords}

\* a service that is down raises on every call
RepliesOf(up) == IF up THEN Replies ELSE {[kind |-> "raise", words |-> {}]}

EmptyCache == [k \in Kinds |-> [t \in Texts |-> "none"]]

\* AICache.get_cached_response: the entry of (fingerprint, kind) that has not
\* expired, "none" without one; no cache object when cache_enabled is off
get_cached_response(cfg, cache, kind, text) ==
    IF cfg.cache_enabled THEN cache[kind][text] ELSE "none"

\* mutant: the answer is not stored
cache_response_lost(cfg, cache, kind, text, value) == cache

\* AICache.cache_response: INSERT OR REPLACE of the entry
cache_response(cfg, cache, kind, text, value) ==
    IF cfg.cache_enabled THEN [cache EXCEPT ![kind][text] = value] ELSE cache

\* mutant: a failed call is read as the answer "not fresh, urgent"
call_groq_api_failure_answers(reply) ==
    IF reply.kind = "text" THEN reply.words
    ELSE IF reply.kind = "raise" THEN {"NET", "DA"} ELSE {}

\* AISummarizer._call_groq_api: the words of the completion; None (here the
\* empty set of words, which the callers treat alike) for an empty
\* completion and for every exception
call_groq_api(reply) ==
    IF reply.kind = "text" THEN reply.words ELSE {}

BoolText(b) == IF b THEN "true" ELSE "false"

CheckResult(r, c, n) == [ret |-> r, cache |-> c, called |-> n]

\* mutant: the keyword list is consulted after the service
check_urgency_no_fast_path(cfg, cache, text, reply) ==
    LET cached == get_cached_response(cfg, cache, "urgency", text)
        is_urgent == "DA" \in call_groq_api(reply)
    IN IF cached # "none" THEN CheckResult(cached = "true", cache, FALSE)
       ELSE CheckResult(is_urgent \/ text.urgent_kw,
                        cache_response(cfg, cache, "urgency", text,
                                       BoolText(is_urgent \/ text.urgent_kw)), TRUE)

\* mutant: a call that got no response leaves the cache as it is
check_urgency_skips_failed(cfg, cache, text, reply) ==
    LET cached == get_cached_response(cfg, cache, "urgency", text)
        is_urgent == "DA" \in call_groq_api(reply)
    IN IF cached # "none" THEN CheckResult(cached = "true", cache, FALSE)
       ELSE IF text.urgent_kw
       THEN CheckResult(TRUE, cache_response(cfg, cache, "urgency", text, "true"),
                        FALSE)
       ELSE IF reply.kind # "text" THEN CheckResult(FALSE, cache, TRUE)
       ELSE CheckResult(is_urgent,
                        cache_response(cfg, cache, "urgency", text,
                                       BoolText(is_urgent)), TRUE)

\* AISummarizer.check_urgency
check_urgency(cfg, cache, text, reply) ==
    LET cached == get_cached_response(cfg, cache, "urgency", text)
        is_urgent == "DA" \in call_groq_api(reply)
    IN IF cached # "none" THEN CheckResult(cached = "true", cache, FALSE)
       ELSE IF text.urgent_kw
       THEN CheckResult(TRUE, cache_response(cfg, cache, "urgency", text, "true"),
                        FALSE)
       ELSE CheckResult(is_urgent,
                        cache_response(cfg, cache, "urgency", text,
                                       BoolText(is_urgent)), TRUE)

\* AISummarizer.check_news_freshness
check_news_freshness(cfg, cache, text, reply) ==
    LET cached == get_cached_response(cfg, cache, "freshness", text)
        response == call_groq_api(reply)
        is_fresh == ~("NET" \in response \/ "NO" \in response)
    IN IF cached # "none" THEN CheckResult(cached = "true", cache, FALSE)
       ELSE IF ~text.time_ref
       THEN CheckResult(TRUE, cache_response(cfg, cache, "freshness", text, "true"),
                        FALSE)
       ELSE CheckResult(is_fresh,
                        cache_response(cfg, cache, "freshness", text,
                                       BoolText(is_fresh)), TRUE)

(***************************************************************************)
(* The deduplicator (src/smart_deduplicator.py).  An item of a batch is    *)
(* its place id in the batch, its title ("empty", "short": not empty and   *)
(* fewer than 5 characters when stripped, or "long") and its content hash. *)
(* The scores total_similarity takes are given with the batch, in tenths,  *)
(* one per ordered pair of items: SequenceMatcher.ratio() is not symmetric.*)
(* The score of a pair with an empty title is content_weight times the     *)
(* similarity of the summaries; it reaches the threshold where the         *)
(* configured content_weight does.                                         *)
(***************************************************************************)
TitleKinds == {"empty", "short", "long"}

Hashes == {1, 2}

\* below the threshold, and at the threshold
Scores == {6, 7}

\* SmartDeduplicator.__init__: config.get("similarity_threshold", 0.7)
similarity_threshold == 7

\* the batches of n items; find_duplicates computes the hash of an item and
\* its scores only when its title is long, and the batches leave the hash
\* of the other items at 1
DedupBatches(n) ==
    {b \in [1..n -> [id : 1..n, title : TitleKinds, hash : Hashes]] :
        \A k \in 1..n : b[k].id = k /\ (b[k].title # "long" => b[k].hash = 1)}

Pairs(n) == {p \in (1..n) \X (1..n) : p[1] # p[2]}

\* the scores of a batch; a row the code never computes is left at the
\* lower score
DedupScores(batch) ==
    {sim \in [Pairs(Len(batch)) -> Scores] :
        \A p \in Pairs(Len(batch)) : batch[p[1]].title # "long" => sim[p] = 6}

\* mutant: only an empty title is too short
TooShortEmptyOnly(item) == item.title = "empty"

\* not item.title or len(item.title.strip()) < 5
TooShort(item) == item.title # "long"

\* mutant: the threshold is exclusive
IsDuplicateStrict(max_sim) == max_sim > similarity_threshold

\* is_duplicate = max_similarity >= self.similarity_threshold
IsDuplicate(max_sim) == max_sim >= similarity_threshold

RECURSIVE MaxOver(_, _, _, _, _)
\* the loop over other_item from item j on: an item with an empty title is
\* passed over; max_similarity is raised by every total_similarity greater
\* than it
MaxOver(batch, sim, i, j, max_so_far) ==
    IF j > Len(batch) THEN max_so_far
    ELSE IF j # i /\ batch[j].title # "empty" /\ sim[<<i, j>>] > max_so_far
    THEN MaxOver(batch, sim, i, j + 1, sim[<<i, j>>])
    ELSE MaxOver(batch, sim, i, j + 1, max_so_far)

\* max_similarity = 0.0 before the loop
max_similarity(batch, sim, i) == MaxOver(batch, sim, i, 1, 0)

\* SimilarityResult(similarity_score, is_duplicate, reason)
SimilarityResult(score, dup, reason) ==
    [similarity_score |-> score, is_duplicate |-> dup, reason |-> reason]

RECURSIVE FindLoop(_, _, _, _, _)
\* mutant: the hash of an item classified non-duplicate is not remembered
FindLoopForgets(batch, sim, i, processed, results) ==
    IF i > Len(batch) THEN [results |-> results, processed |-> processed]
    ELSE LET item == batch[i]
             max_sim == max_similarity(batch, sim, i)
             is_duplicate == IsDuplicate(max_sim)
         IN IF TooShort(item)
            THEN FindLoop(batch, sim, i + 1, processed,
                          Append(results, SimilarityResult(0, FALSE, "short")))
            ELSE IF item.hash \in processed
            THEN FindLoop(batch, sim, i + 1, processed,
                          Append(results, SimilarityResult(10, TRUE, "hash")))
            ELSE FindLoop(batch, sim, i + 1, processed,
                          Append(results,
                                 SimilarityResult(max_sim, is_duplicate, "similarity")))

\* the loop of find_duplicates from item i on; processed is _processed_hashes
\* and results the list of results so far
FindLoop(batch, sim, i, processed, results) ==
    IF i > Len(batch) THEN [results |-> results, processed |-> processed]
    ELSE LET item == batch[i]
             max_sim == max_similarity(batch, sim, i)
             is_duplicate == IsDuplicate(max_sim)
         IN IF TooShort(item)
            THEN FindLoop(batch, sim, i + 1, processed,
                          Append(results, SimilarityResult(0, FALSE, "short")))
            ELSE IF item.hash \in processed
            THEN FindLoop(batch, sim, i + 1, processed,
                          Append(results, SimilarityResult(10, TRUE, "hash")))
            ELSE FindLoop(batch, sim, i + 1,
                          IF is_duplicate THEN processed
                          ELSE processed \cup {item.hash},
                          Append(results,
                                 SimilarityResult(max_sim, is_duplicate, "similarity")))

\* SmartDeduplicator.find_duplicates on a deduplicator whose hash cache is
\* processed
find_duplicates(batch, sim, processed) ==
    FindLoop(batch, sim, 1, processed, <<>>).results

\* _processed_hashes as find_duplicates leaves it
processed_hashes_after(batch, sim, processed) ==
    FindLoop(batch, sim, 1, processed, <<>>).processed

\* mutant: an item with a short title is in neither list
filter_duplicates_skips_short(batch, sim, processed) ==
    LET results == find_duplicates(batch, sim, processed)
        Flag(item) == results[item.id].is_duplicate
    IN [unique |-> SelectSeq(batch, LAMBDA item : ~Flag(item) /\ ~TooShort(item)),
        duplicates |-> SelectSeq(batch, LAMBDA item : Flag(item))]

\* SmartDeduplicator.filter_duplicates: (unique_items, duplicate_items)
filter_duplicates(batch, sim, processed) ==
    LET results == find_duplicates(batch, sim, processed)
        Flag(item) == results[item.id].is_duplicate
    IN [unique |-> SelectSeq(batch, LAMBDA item : ~Flag(item)),
        duplicates |-> SelectSeq(batch, LAMBDA item : Flag(item))]

(***************************************************************************)
(* State.  BotState.processed_count, last_run and start_time are written   *)
(* by process_once and read by get_stats only; they are left out.          *)
(***************************************************************************)
VARIABLES
    config,          \* the configuration loaded once by NewsBot.run
    post_queue,      \* BotState.post_queue
    posted_count,    \* BotState.posted_count
    errors_count,    \* BotState.errors_count
    ledger,          \* the table "published"
    pcCollect,       \* where process_once is suspended; "idle" when not running
    items,           \* process_once: items (after deduplication)
    to_check,        \* items_to_check not yet awaited (urgent stage or filter)
    urgent_items,    \* process_urgent_news: urgent_items not yet posted
    fresh_items,     \* _filter_fresh_items: fresh_items
    selected_items,  \* process_once: selected_items of the last finished cycle
    pcPost,          \* where process_post_queue is suspended; "idle" when not running
    inflight,        \* process_post_queue: the popped entry, <<>> when idle
    cycles,          \* history: runs of process_once started
    ticks,           \* history: runs of process_post_queue started
    post_attempts,   \* history: post_news_item calls made by process_post_queue
    sink_ok,         \* history: successful publishes per item
    mark_calls,      \* history: mark_published calls per item
    urgent_judged,   \* history: items judged fresh and urgent in this cycle
    urgent_tried,    \* history: items the urgent path tried to publish in this cycle
    urgent_ok,       \* history: items the urgent path published in this cycle
    evicted,         \* history: entries pushed out by the last enqueue step
    filter_input,    \* history: the unpublished items _filter_fresh_items began with
    filter_dropped,  \* history: items of filter_input that the last filter neither
                     \* returned nor had judged not fresh
    fresh_checked,   \* history: items whose freshness the first cycle of the run
                     \* asked the classifier (the cache holds no answer yet)
    urgency_checked, \* history: items whose urgency the first cycle asked it
    sel_items,       \* SpecSelect: the input list of the selector
    sel_cfg,         \* SpecSelect: the configuration given to the selector
    sel_out,         \* SpecSelect: the list returned by the selector
    prio_name,       \* SpecSelect: the source name given to get_source_priority
    prio_out,        \* SpecSelect: the priority it returned
    sel_pc,          \* SpecSelect: "input", "selected" or "resolved"
    published,       \* SpecLedger: the table "published"
    mark_returns,    \* SpecLedger: what the calls of mark_published returned
    cl_cfg,          \* SpecClassifier: cache_enabled, and whether the service is up
    ai_cache,        \* SpecClassifier: the table "ai_cache", entries within their TTL
    cl_checks,       \* SpecClassifier: history, checks made
    api_calls,       \* SpecClassifier: history, calls that reached the service
    answered,        \* SpecClassifier: history, the answer of the last check of
                     \* each (kind, text) whose TTL has not run out
    cl_last,         \* SpecClassifier: history, the last check made
    cl_defaulted,    \* SpecClassifier: history, the (kind, text) whose last check
                     \* got no response from the service, TTL not run out
    dd_batch,        \* SpecDedup: the batch given to filter_duplicates
    dd_sim,          \* SpecDedup: total_similarity of each ordered pair of the batch
    dd_out,          \* SpecDedup: what filter_duplicates returned, <<>> before
    dd_processed,    \* SpecDedup: _processed_hashes of the deduplicator
    dd_seen,         \* SpecDedup: history, _processed_hashes when the call began
    dd_results,      \* SpecDedup: history, what find_duplicates returned
    g_cfg,           \* SpecCollect: which of the optional collectors are enabled
    g_ledger,        \* SpecCollect: the table "published"
    g_pc,            \* SpecCollect: where process_once is suspended, or "idle"
    g_items,         \* SpecCollect: process_once: items
    g_errors,        \* SpecCollect: BotState.errors_count
    g_queue,         \* SpecCollect: BotState.post_queue
    g_selected,      \* SpecCollect: selected_items of the last finished cycle
    g_cycles,        \* SpecCollect: history, cycles started
    g_failed,        \* SpecCollect: history, the collectors that failed in this cycle
    g_ok_items,      \* SpecCollect: history, what the collectors that did not fail
                     \* delivered in this cycle, filtered where collect_news filters
    g_partial,       \* SpecCollect: history, what the optional collectors that
                     \* failed inside delivered in this cycle
    g_collected,     \* SpecCollect: history, items as the cycle had them before
                     \* deduplication (bot.py:259)
    g_aborted,       \* SpecCollect: history, the last cycle ended by an exception
    imp_text,        \* SpecImportance: the words of title and content
    imp_long,        \* SpecImportance: len(content) > 500
    imp_out,         \* SpecImportance: what analyze_importance returned, <<>> before
    imp_before,      \* SpecImportance: history, the text and the result before a word was added
    sm_text1,        \* SpecSimilarity: the first text
    sm_text2,        \* SpecSimilarity: the second text
    sm_out,          \* SpecSimilarity: the two similarities computed, <<>> before
    rt_op,           \* SpecRetry: the ledger operation called, mark_published or is_published
    rt_outcomes,     \* SpecRetry: what the database does at the 1st, 2nd, 3rd execution
    rt_attempts,     \* SpecRetry: executions of the function body so far
    rt_raised,       \* SpecRetry: the exception the last execution raised, none if it returned
    rt_state,        \* SpecRetry: ready, executed (tenacity to decide) or done
    rt_result,       \* SpecRetry: what the caller got: none, returned, or the exception
    lf_batch,        \* SpecFault: the items of the cycle after deduplication
    lf_ai,           \* SpecFault: ai_summarization is enabled and usable
    lf_ledger,       \* SpecFault: the rows of the ledger for the items of the batch
    lf_phase,        \* SpecFault: urgent, filter, done, or aborted when process_once raised
    lf_failed,       \* SpecFault: the items whose is_published call raised
    lf_queue,        \* SpecFault: the items process_once appended to the post queue
    cf_file,         \* SpecReload: the configuration stored in config.json
    cf_mtime,        \* SpecReload: the modification time of config.json
    cf_config,       \* SpecReload: ConfigManager._config, <<>> when nothing is cached
    cf_last_modified,\* SpecReload: ConfigManager._last_modified
    cf_job,          \* SpecReload: args of the scheduler job collect-and-post, <<>> before run()
    cf_cycles,       \* SpecReload: per cycle run, the configuration it used and the one on disk then
    ag_items,        \* SpecAge: the items given to filter_items
    ag_now,          \* SpecAge: datetime.utcnow() at the call
    ag_max_age_hours,\* SpecAge: the argument max_age_hours
    ag_max_age_minutes,\* SpecAge: the argument max_age_minutes, <<>> for None
    ag_out,          \* SpecAge: <<the list returned>>, <<>> before the call
    dd_again,        \* SpecDedup: what a second filter_duplicates of the same deduplicator returned for the unique list of the first, <<>> before
    dd_again_results, \* SpecDedup: history, what find_duplicates returned in the second call
    pf_queue,        \* SpecPostFault: BotState.post_queue
    pf_inflight,     \* SpecPostFault: the entry process_post_queue popped, <<>> when idle
    pf_ledger,       \* SpecPostFault: the table published
    pf_sink,         \* SpecPostFault: history, messages the sink accepted per item
    pf_errors,       \* SpecPostFault: BotState.errors_count
    pf_posted,       \* SpecPostFault: BotState.posted_count
    pf_ticks,        \* SpecPostFault: history, runs of process_post_queue started
    lv_queue,        \* SpecLive: BotState.post_queue, an entry known by its serial number
    lv_inflight,     \* SpecLive: the entry process_post_queue popped, <<>> when idle
    lv_serial,       \* SpecLive: history, entries enqueued so far
    lv_evicted,      \* SpecLive: history, entries a full deque pushed out
    al_base,         \* SpecAdaptive: base_length, AISummarizer.max_length
    al_out           \* SpecAdaptive: the lengths returned so far, by category, in tenths of a character

botVars == <<config, post_queue, posted_count, errors_count, ledger>>

collectVars == <<pcCollect, items, to_check, urgent_items, fresh_items, selected_items>>

postVars == <<pcPost, inflight>>

filterVars == <<filter_input, filter_dropped>>

checkVars == <<fresh_checked, urgency_checked>>

histVars == <<cycles, ticks, post_attempts, sink_ok, mark_calls,
              urgent_judged, urgent_tried, urgent_ok, evicted,
              filterVars, checkVars>>

selVars == <<sel_items, sel_cfg, sel_out, prio_name, prio_out, sel_pc>>

ledgerVars == <<published, mark_returns>>

classifierVars == <<cl_cfg, ai_cache, cl_checks, api_calls, answered, cl_last,
                    cl_defaulted>>

dedupVars == <<dd_batch, dd_sim, dd_out, dd_processed, dd_seen, dd_results>>

gatherVars == <<g_cfg, g_ledger, g_pc, g_items, g_errors, g_queue, g_selected,
                g_cycles, g_failed, g_ok_items, g_partial, g_collected, g_aborted>>

\* the variables of the pipeline and of the specifications above
baseVars == <<botVars, collectVars, postVars, histVars, selVars, ledgerVars,
              classifierVars, dedupVars, gatherVars>>

importanceVars == <<imp_text, imp_long, imp_out, imp_before>>

similarityVars == <<sm_text1, sm_text2, sm_out>>

retryVars == <<rt_op, rt_outcomes, rt_attempts, rt_raised, rt_state, rt_result>>

faultVars == <<lf_batch, lf_ai, lf_ledger, lf_phase, lf_failed, lf_queue>>

reloadVars == <<cf_file, cf_mtime, cf_config, cf_last_modified, cf_job, cf_cycles>>

ageVars == <<ag_items, ag_now, ag_max_age_hours, ag_max_age_minutes, ag_out>>

rerunVars == <<dd_again, dd_again_results>>

postfaultVars == <<pf_queue, pf_inflight, pf_ledger, pf_sink, pf_errors, pf_posted, pf_ticks>>

liveVars == <<lv_queue, lv_inflight, lv_serial, lv_evicted>>

adaptiveVars == <<al_base, al_out>>

\* the variables of the specifications of the pure functions
extVars == <<importanceVars, similarityVars, retryVars, faultVars, reloadVars, ageVars, rerunVars, postfaultVars, liveVars, adaptiveVars>>

\* what an action of one of these specifications leaves alone
importanceFrame == <<baseVars, similarityVars, retryVars, faultVars, reloadVars, ageVars, rerunVars, postfaultVars, liveVars, adaptiveVars>>

similarityFrame == <<baseVars, importanceVars, retryVars, faultVars, reloadVars, ageVars, rerunVars, postfaultVars, liveVars, adaptiveVars>>

retryFrame == <<baseVars, importanceVars, similarityVars, faultVars, reloadVars, ageVars, rerunVars, postfaultVars, liveVars, adaptiveVars>>

faultFrame == <<baseVars, importanceVars, similarityVars, retryVars, reloadVars, ageVars, rerunVars, postfaultVars, liveVars, adaptiveVars>>

reloadFrame == <<baseVars, importanceVars, similarityVars, retryVars, faultVars, ageVars, rerunVars, postfaultVars, liveVars, adaptiveVars>>

ageFrame == <<baseVars, importanceVars, similarityVars, retryVars, faultVars, reloadVars, rerunVars, postfaultVars, liveVars, adaptiveVars>>

rerunFrame == <<baseVars, importanceVars, similarityVars, retryVars, faultVars, reloadVars, ageVars, postfaultVars, liveVars, adaptiveVars>>

postfaultFrame == <<baseVars, importanceVars, similarityVars, retryVars, faultVars, reloadVars, ageVars, rerunVars, liveVars, adaptiveVars>>

liveFrame == <<baseVars, importanceVars, similarityVars, retryVars, faultVars, reloadVars, ageVars, rerunVars, postfaultVars, adaptiveVars>>

adaptiveFrame == <<baseVars, importanceVars, similarityVars, retryVars, faultVars, reloadVars, ageVars, rerunVars, postfaultVars, liveVars>>

auxVars == <<ledgerVars, classifierVars, dedupVars, gatherVars, extVars>>

vars == <<botVars, collectVars, postVars, histVars, selVars, auxVars>>

(***************************************************************************)
(* Configurations explored by the pipeline.                                *)
(*   ai_enabled        ai_summarization.enabled and AISummarizer.is_enabled *)
(*   has_credentials   telegram.token (or TELEGRAM_BOT_TOKEN) and          *)
(*                     telegram.channel_id are set                         *)
(*   max_queue_size    posting.max_queue_size                              *)
(***************************************************************************)
PipelineConfig(ai, cred, urg, fresh, src, qsize) ==
    [ai_enabled |-> ai, has_credentials |-> cred,
     max_urgency_checks |-> urg, max_freshness_checks |-> fresh,
     max_sources_per_cycle |-> src, max_queue_size |-> qsize,
     sources |-> <<>>, high_priority |-> {"B"}, medium_priority |-> {},
     low_priority |-> {"A"}]

\* without the classifier the two caps are never read; without credentials
\* the urgency cap is never read
PipelineConfigs ==
    {PipelineConfig(FALSE, cred, 1, 1, src, qsize) :
        cred \in BOOLEAN, src \in {1, 2}, qsize \in {DequeMaxLen - 1, DequeMaxLen}}
    \cup {PipelineConfig(TRUE, FALSE, 1, fresh, src, DequeMaxLen) :
        fresh \in {1, 2}, src \in {1, 2}}
    \cup {PipelineConfig(TRUE, TRUE, urg, fresh, src, DequeMaxLen) :
        urg \in {1, 2}, fresh \in {1, 2}, src \in {1, 2}}

\* the batches a cycle can have in hand after collection and deduplication
Batches == DistinctSeqs(Items, MaxBatch)

ZeroCount == [i \in Items |-> 0]

NoSelInput == [sources |-> <<>>, high_priority |-> {}, medium_priority |-> {},
               low_priority |-> {}, max_sources_per_cycle |-> 0]

\* the (id, source) pairs of the ledger contract (SpecLedger)
LedgerItems == [id : {1, 2}, source : Sources]

LedgerIdle ==
    /\ published = [i \in LedgerItems |-> "none"]
    /\ mark_returns = [i \in LedgerItems |-> <<>>]

ClassifierIdle ==
    /\ cl_cfg = [cache_enabled |-> TRUE, up |-> TRUE]
    /\ ai_cache = EmptyCache
    /\ cl_checks = 0
    /\ api_calls = 0
    /\ answered = EmptyCache
    /\ cl_last = <<>>
    /\ cl_defaulted = {}

DedupIdle ==
    /\ dd_batch = <<>>
    /\ dd_sim = <<>>
    /\ dd_out = <<>>
    /\ dd_processed = {}
    /\ dd_seen = {}
    /\ dd_results = <<>>

GatherIdle ==
    /\ g_cfg = [alternative |-> FALSE, google |-> FALSE, telegram |-> FALSE]
    /\ g_ledger = <<>>
    /\ g_pc = "off"
    /\ g_items = <<>>
    /\ g_errors = 0
    /\ g_queue = <<>>
    /\ g_selected = <<>>
    /\ g_cycles = 0
    /\ g_failed = {}
    /\ g_ok_items = <<>>
    /\ g_partial = <<>>
    /\ g_collected = <<>>
    /\ g_aborted = FALSE

ImportanceIdle ==
    /\ imp_text = {}
    /\ imp_long = FALSE
    /\ imp_out = <<>>
    /\ imp_before = <<>>

SimilarityIdle ==
    /\ sm_text1 = <<>>
    /\ sm_text2 = <<>>
    /\ sm_out = <<>>

RetryIdle ==
    /\ rt_op = "none"
    /\ rt_outcomes = <<>>
    /\ rt_attempts = 0
    /\ rt_raised = "none"
    /\ rt_state = "done"
    /\ rt_result = "none"

FaultIdle ==
    /\ lf_batch = <<>>
    /\ lf_ai = FALSE
    /\ lf_ledger = <<>>
    /\ lf_phase = "done"
    /\ lf_failed = {}
    /\ lf_queue = <<>>

ReloadIdle ==
    /\ cf_file = 0
    /\ cf_mtime = 0
    /\ cf_config = <<>>
    /\ cf_last_modified = 0
    /\ cf_job = <<>>
    /\ cf_cycles = <<>>

AgeIdle ==
    /\ ag_items = <<>>
    /\ ag_now = 0
    /\ ag_max_age_hours = 0
    /\ ag_max_age_minutes = <<>>
    /\ ag_out = <<>>

RerunIdle ==
    /\ dd_again = <<>>
    /\ dd_again_results = <<>>

PostFaultIdle ==
    /\ pf_queue = <<>>
    /\ pf_inflight = <<>>
    /\ pf_ledger = <<>>
    /\ pf_sink = <<>>
    /\ pf_errors = 0
    /\ pf_posted = 0
    /\ pf_ticks = 0

LiveIdle ==
    /\ lv_queue = <<>>
    /\ lv_inflight = <<>>
    /\ lv_serial = 0
    /\ lv_evicted = {}

AdaptiveIdle ==
    /\ al_base = 0
    /\ al_out = <<>>

ExtIdle ==
    /\ ImportanceIdle
    /\ SimilarityIdle
    /\ RetryIdle
    /\ FaultIdle
    /\ ReloadIdle
    /\ AgeIdle
    /\ RerunIdle
    /\ PostFaultIdle
    /\ LiveIdle
    /\ AdaptiveIdle

AuxIdle ==
    /\ LedgerIdle
    /\ ClassifierIdle
    /\ DedupIdle
    /\ GatherIdle
    /\ ExtIdle

SelIdle ==
    /\ sel_items = <<>>
    /\ sel_cfg = NoSelInput
    /\ sel_out = <<>>
    /\ prio_name = ""
    /\ prio_out = 0
    /\ sel_pc = "off"

\* NewsBot.__init__ / BotState(): empty queue, zero counters; init_db on an
\* empty store
Init ==
    /\ config \in PipelineConfigs
    /\ post_queue = <<>>
    /\ posted_count = 0
    /\ errors_count = 0
    /\ ledger = EmptyLedger
    /\ pcCollect = "idle"
    /\ items = <<>>
    /\ to_check = <<>>
    /\ urgent_items = <<>>
    /\ fresh_items = <<>>
    /\ selected_items = <<>>
    /\ pcPost = "idle"
    /\ inflight = <<>>
    /\ cycles = 0
    /\ ticks = 0
    /\ post_attempts = 0
    /\ sink_ok = ZeroCount
    /\ mark_calls = ZeroCount
    /\ urgent_judged = {}
    /\ urgent_tried = {}
    /\ urgent_ok = {}
    /\ evicted = 0
    /\ filter_input = <<>>
    /\ filter_dropped = {}
    /\ fresh_checked = {}
    /\ urgency_checked = {}
    /\ SelIdle
    /\ AuxIdle

(***************************************************************************)
(* process_once.  The continuations below are the synchronous stretches of *)
(* code between two awaits; each sets post_queue, ledger, evicted and the  *)
(* locals of the cycle.  led is the ledger as the running step left it.    *)
(***************************************************************************)

\* mutant: the enqueue loop is left after its first append
EnqueueSelectedFirstOnly(new_items, led) ==
    LET sel == IF new_items # <<>> THEN select_items_by_priority(new_items, config)
               ELSE <<>>
        entries == [k \in 1..Len(sel) |-> Entry(sel[k], 0)]
    IN /\ selected_items' = sel
       /\ post_queue' = DequeExtend(post_queue, Take(entries, 1))
       /\ evicted' = Len(post_queue) + Min(Len(entries), 1) - Len(post_queue')
       /\ ledger' = cleanup_old_entries(led)
       /\ pcCollect' = "idle"
       /\ items' = <<>>
       /\ to_check' = <<>>
       /\ urgent_items' = <<>>
       /\ fresh_items' = <<>>

\* bot.py:288-302: select, enqueue, cleanup; the cycle ends
EnqueueSelected(new_items, led) ==
    LET sel == IF new_items # <<>> THEN select_items_by_priority(new_items, config)
               ELSE <<>>
        entries == [k \in 1..Len(sel) |-> Entry(sel[k], 0)]
    IN /\ selected_items' = sel
       /\ post_queue' = DequeExtend(post_queue, entries)
       /\ evicted' = Len(post_queue) + Len(entries) - Len(post_queue')
       /\ ledger' = cleanup_old_entries(led)
       /\ pcCollect' = "idle"
       /\ items' = <<>>
       /\ to_check' = <<>>
       /\ urgent_items' = <<>>
       /\ fresh_items' = <<>>

\* bot.py:344-351: the items beyond the cap are added without a check
\* (input is the unpublished list the filter began with; the items it
\* checked and did not keep are those the classifier judged not fresh;
\* filter_dropped leaves out the items published while the filter ran)
FilterDone(fresh, its, led, input) ==
    LET remaining_items == Drop(Unpublished(led, its), config.max_freshness_checks)
        returned == fresh \o remaining_items
        judged_stale == Range(Take(input, config.max_freshness_checks)) \ Range(fresh)
    IN /\ EnqueueSelected(returned, led)
       /\ filter_input' = <<>>
       /\ filter_dropped' = {i \in Range(input) : ~is_published(led, i)}
                              \ (Range(returned) \cup judged_stale)

\* bot.py:304-327: _filter_fresh_items up to its first await
FilterStart(its, led) ==
    IF ~config.ai_enabled
    THEN /\ EnqueueSelected(Unpublished(led, its), led)
         /\ filter_input' = <<>>
         /\ filter_dropped' = {}
    ELSE LET items_to_check == Take(Unpublished(led, its), config.max_freshness_checks)
         IN IF items_to_check = <<>>
            THEN FilterDone(<<>>, its, led, Unpublished(led, its))
            ELSE /\ filter_input' = Unpublished(led, its)
                 /\ filter_dropped' = {}
                 /\ pcCollect' = "filter_check"
                 /\ to_check' = items_to_check
                 /\ fresh_items' = <<>>
                 /\ items' = its
                 /\ urgent_items' = <<>>
                 /\ selected_items' = <<>>
                 /\ evicted' = 0
                 /\ ledger' = led
                 /\ UNCHANGED post_queue

\* bot.py:105-139: process_urgent_news up to its first await
UrgentStart(its, led) ==
    IF its = <<>> \/ ~config.ai_enabled \/ ~config.has_credentials
    THEN FilterStart(its, led)
    ELSE LET items_to_check == Take(Unpublished(led, its), config.max_urgency_checks)
         IN IF items_to_check = <<>>
            THEN FilterStart(its, led)
            ELSE /\ filter_input' = <<>>
                 /\ filter_dropped' = {}
                 /\ pcCollect' = "urgent_check"
                 /\ to_check' = items_to_check
                 /\ urgent_items' = <<>>
                 /\ items' = its
                 /\ fresh_items' = <<>>
                 /\ selected_items' = <<>>
                 /\ evicted' = 0
                 /\ ledger' = led
                 /\ UNCHANGED post_queue

\* bot.py:203-282: a cycle starts with the batch the collectors and the
\* deduplicator left (the batches drawn hold no duplicates, so the count
\* before deduplication is the length of the batch)
Collect(batch) ==
    /\ pcCollect = "idle"
    /\ cycles < MaxCycles
    /\ cycles' = cycles + 1
    /\ urgent_judged' = {}
    /\ urgent_tried' = {}
    /\ urgent_ok' = {}
    /\ fresh_checked' = {}
    /\ urgency_checked' = {}
    /\ UrgentStart(batch, ledger)
    /\ UNCHANGED <<config, posted_count, errors_count, postVars,
                   ticks, post_attempts, sink_ok, mark_calls, selVars, auxVars>>

\* bot.py:139-165: one iteration of the urgency loop resumes; outcome is
\* what check_news_freshness and check_urgency answered for the item:
\* "stale" (not fresh), "urgent" (fresh and urgent), "normal" (fresh, not
\* urgent) or "error" (one of the two raised)
UrgentCheckDone(outcome) ==
    /\ pcCollect = "urgent_check"
    /\ LET item == Head(to_check)
           rest == Tail(to_check)
           found == IF outcome = "urgent" THEN Append(urgent_items, item)
                    ELSE urgent_items
       IN /\ errors_count' = IF outcome = "error" THEN errors_count + 1
                             ELSE errors_count
          /\ urgent_judged' = IF outcome = "urgent" THEN urgent_judged \cup {item}
                              ELSE urgent_judged
          /\ fresh_checked' = IF outcome = "error" \/ cycles > 1 THEN fresh_checked
                              ELSE fresh_checked \cup {item}
          /\ urgency_checked' = IF outcome \in {"urgent", "normal"} /\ cycles = 1
                                THEN urgency_checked \cup {item}
                                ELSE urgency_checked
          /\ IF rest # <<>>
             THEN /\ to_check' = rest
                  /\ urgent_items' = found
                  /\ UNCHANGED <<pcCollect, items, fresh_items, selected_items,
                                 evicted, ledger, post_queue, filterVars>>
             ELSE IF found # <<>>
             THEN /\ pcCollect' = "urgent_post"
                  /\ to_check' = <<>>
                  /\ urgent_items' = found
                  /\ UNCHANGED <<items, fresh_items, selected_items,
                                 evicted, ledger, post_queue, filterVars>>
             ELSE FilterStart(items, ledger)
    /\ UNCHANGED <<config, posted_count, postVars, cycles, ticks,
                   post_attempts, sink_ok, mark_calls, urgent_tried, urgent_ok,
                   selVars, auxVars>>

\* mutant: a failed urgent post ends the loop over the urgent items
UrgentPostDoneAborts(ok) ==
    /\ pcCollect = "urgent_post"
    /\ ok => config.has_credentials
    /\ LET item == Head(urgent_items)
           rest == Tail(urgent_items)
           led == LedgerAfterPost(ok, ledger, item)
       IN /\ urgent_tried' = urgent_tried \cup {item}
          /\ IF ok
             THEN /\ sink_ok' = [sink_ok EXCEPT ![item] = @ + 1]
                  /\ ledger' = led
                  /\ mark_calls' = [mark_calls EXCEPT ![item] = @ + 1]
                  /\ posted_count' = posted_count + 1
                  /\ urgent_ok' = urgent_ok \cup {item}
                  /\ pcCollect' = "urgent_sleep"
                  /\ urgent_items' = rest
                  /\ UNCHANGED <<errors_count, items, to_check, fresh_items,
                                 selected_items, evicted, post_queue, filterVars>>
             ELSE /\ errors_count' = errors_count + 1
                  /\ UNCHANGED <<sink_ok, mark_calls, posted_count, urgent_ok>>
                  /\ FilterStart(items, led)
    /\ UNCHANGED <<config, postVars, cycles, ticks, post_attempts,
                   urgent_judged, checkVars, selVars, auxVars>>

\* bot.py:167-182: post_news_item for the first urgent item returns (ok) or
\* raises
UrgentPostDone(ok) ==
    /\ pcCollect = "urgent_post"
    /\ ok => config.has_credentials
    /\ LET item == Head(urgent_items)
           rest == Tail(urgent_items)
           led == LedgerAfterPost(ok, ledger, item)
       IN /\ urgent_tried' = urgent_tried \cup {item}
          /\ IF ok
             THEN /\ sink_ok' = [sink_ok EXCEPT ![item] = @ + 1]
                  /\ ledger' = led
                  /\ mark_calls' = [mark_calls EXCEPT ![item] = @ + 1]
                  /\ posted_count' = posted_count + 1
                  /\ urgent_ok' = urgent_ok \cup {item}
                  /\ pcCollect' = "urgent_sleep"
                  /\ urgent_items' = rest
                  /\ UNCHANGED <<errors_count, items, to_check, fresh_items,
                                 selected_items, evicted, post_queue, filterVars>>
             ELSE /\ errors_count' = errors_count + 1
                  /\ UNCHANGED <<sink_ok, mark_calls, posted_count, urgent_ok>>
                  /\ IF rest # <<>>
                     THEN /\ urgent_items' = rest
                          /\ ledger' = led
                          /\ UNCHANGED <<pcCollect, items, to_check, fresh_items,
                                         selected_items, evicted, post_queue,
                                         filterVars>>
                     ELSE FilterStart(items, led)
    /\ UNCHANGED <<config, postVars, cycles, ticks, post_attempts,
                   urgent_judged, checkVars, selVars, auxVars>>

\* bot.py:178: asyncio.sleep(2) after an urgent post returns
UrgentSleepDone ==
    /\ pcCollect = "urgent_sleep"
    /\ IF urgent_items # <<>>
       THEN /\ pcCollect' = "urgent_post"
            /\ UNCHANGED <<items, to_check, urgent_items, fresh_items,
                           selected_items, evicted, ledger, post_queue, filterVars>>
       ELSE FilterStart(items, ledger)
    /\ UNCHANGED <<config, posted_count, errors_count, postVars,
                   cycles, ticks, post_attempts, sink_ok, mark_calls,
                   urgent_judged, urgent_tried, urgent_ok, checkVars,
                   selVars, auxVars>>

\* bot.py:327-351: one iteration of the freshness loop resumes; outcome is
\* "fresh", "stale" or "error" (the check raised: the item is kept)
FilterCheckDone(outcome) ==
    /\ pcCollect = "filter_check"
    /\ LET item == Head(to_check)
           rest == Tail(to_check)
           kept == IF outcome \in {"fresh", "error"} THEN Append(fresh_items, item)
                   ELSE fresh_items
       IN /\ fresh_checked' = IF outcome = "error" \/ cycles > 1 THEN fresh_checked
                              ELSE fresh_checked \cup {item}
          /\ IF rest # <<>>
             THEN /\ to_check' = rest
                  /\ fresh_items' = kept
                  /\ UNCHANGED <<pcCollect, items, urgent_items, selected_items,
                                 evicted, ledger, post_queue, filterVars>>
             ELSE FilterDone(kept, items, ledger, filter_input)
    /\ UNCHANGED <<config, posted_count, errors_count, postVars,
                   cycles, ticks, post_attempts, sink_ok, mark_calls,
                   urgent_judged, urgent_tried, urgent_ok, urgency_checked,
                   selVars, auxVars>>

\* thirty days pass between two cycles: the rows of the ledger grow old
Age ==
    /\ pcCollect = "idle"
    /\ pcPost = "idle"
    /\ \E i \in Items : ledger[i] = "new"
    /\ ledger' = [i \in Items |-> IF ledger[i] = "new" THEN "old" ELSE ledger[i]]
    /\ UNCHANGED <<config, post_queue, posted_count, errors_count,
                   collectVars, postVars, histVars, selVars, auxVars>>

(***************************************************************************)
(* process_post_queue.                                                     *)
(***************************************************************************)

\* bot.py:186-187: a tick on an empty queue returns at once
PostTickEmpty ==
    /\ pcPost = "idle"
    /\ ticks < MaxTicks
    /\ post_queue = <<>>
    /\ ticks' = ticks + 1
    /\ UNCHANGED <<botVars, collectVars, postVars, cycles, post_attempts, sink_ok,
                   mark_calls, urgent_judged, urgent_tried, urgent_ok, evicted,
                   filterVars, checkVars, selVars, auxVars>>

\* mutant: the tick takes the head and discards the entry behind it as well
PostTickPopTwo ==
    /\ pcPost = "idle"
    /\ ticks < MaxTicks
    /\ post_queue # <<>>
    /\ ticks' = ticks + 1
    /\ inflight' = <<Head(post_queue)>>
    /\ post_queue' = Drop(post_queue, 2)
    /\ post_attempts' = post_attempts + 1
    /\ pcPost' = "posting"
    /\ UNCHANGED <<config, posted_count, errors_count, ledger,
                   collectVars, cycles, sink_ok, mark_calls, urgent_judged,
                   urgent_tried, urgent_ok, evicted, filterVars, checkVars,
                   selVars, auxVars>>

\* mutant: the tick takes the entry appended last
PostTickPopLast ==
    /\ pcPost = "idle"
    /\ ticks < MaxTicks
    /\ post_queue # <<>>
    /\ ticks' = ticks + 1
    /\ inflight' = <<post_queue[Len(post_queue)]>>
    /\ post_queue' = SubSeq(post_queue, 1, Len(post_queue) - 1)
    /\ post_attempts' = post_attempts + 1
    /\ pcPost' = "posting"
    /\ UNCHANGED <<config, posted_count, errors_count, ledger,
                   collectVars, cycles, sink_ok, mark_calls, urgent_judged,
                   urgent_tried, urgent_ok, evicted, filterVars, checkVars,
                   selVars, auxVars>>

\* bot.py:189-192: popleft, then post_news_item is awaited
PostTickPop ==
    /\ pcPost = "idle"
    /\ ticks < MaxTicks
    /\ post_queue # <<>>
    /\ ticks' = ticks + 1
    /\ inflight' = <<Head(post_queue)>>
    /\ post_queue' = Tail(post_queue)
    /\ post_attempts' = post_attempts + 1
    /\ pcPost' = "posting"
    /\ UNCHANGED <<config, posted_count, errors_count, ledger,
                   collectVars, cycles, sink_ok, mark_calls, urgent_judged,
                   urgent_tried, urgent_ok, evicted, filterVars, checkVars,
                   selVars, auxVars>>

\* mutant: the failed entry is appended whatever the length of the deque
PostDoneRequeueAlways(ok) ==
    /\ pcPost = "posting"
    /\ ok => config.has_credentials
    /\ LET entry == inflight[1]
           item == entry.item
       IN /\ ledger' = LedgerAfterPost(ok, ledger, item)
          /\ IF ok
             THEN /\ sink_ok' = [sink_ok EXCEPT ![item] = @ + 1]
                  /\ mark_calls' = [mark_calls EXCEPT ![item] = @ + 1]
                  /\ posted_count' = posted_count + 1
                  /\ UNCHANGED <<errors_count, post_queue>>
             ELSE /\ errors_count' = errors_count + 1
                  /\ post_queue' = DequeAppend(post_queue, Entry(item, entry.tries + 1))
                  /\ UNCHANGED <<sink_ok, mark_calls, posted_count>>
    /\ pcPost' = "idle"
    /\ inflight' = <<>>
    /\ UNCHANGED <<config, collectVars, cycles, ticks,
                   post_attempts, urgent_judged, urgent_tried, urgent_ok, evicted,
                   filterVars, checkVars, selVars, auxVars>>

\* bot.py:192-201: post_news_item returns (ok) or raises
PostDone(ok) ==
    /\ pcPost = "posting"
    /\ ok => config.has_credentials
    /\ LET entry == inflight[1]
           item == entry.item
       IN /\ ledger' = LedgerAfterPost(ok, ledger, item)
          /\ IF ok
             THEN /\ sink_ok' = [sink_ok EXCEPT ![item] = @ + 1]
                  /\ mark_calls' = [mark_calls EXCEPT ![item] = @ + 1]
                  /\ posted_count' = posted_count + 1
                  /\ UNCHANGED <<errors_count, post_queue>>
             ELSE /\ errors_count' = errors_count + 1
                  /\ post_queue' = IF Len(post_queue) < DequeMaxLen
                                   THEN Append(post_queue, Entry(item, entry.tries + 1))
                                   ELSE post_queue
                  /\ UNCHANGED <<sink_ok, mark_calls, posted_count>>
    /\ pcPost' = "idle"
    /\ inflight' = <<>>
    /\ UNCHANGED <<config, collectVars, cycles, ticks,
                   post_attempts, urgent_judged, urgent_tried, urgent_ok, evicted,
                   filterVars, checkVars, selVars, auxVars>>

Next ==
    \/ \E batch \in Batches : Collect(batch)
    \/ \E outcome \in {"stale", "urgent", "normal", "error"} : UrgentCheckDone(outcome)
    \/ \E ok \in BOOLEAN : UrgentPostDone(ok)
    \/ UrgentSleepDone
    \/ \E outcome \in {"fresh", "stale", "error"} : FilterCheckDone(outcome)
    \/ Age
    \/ PostTickEmpty
    \/ PostTickPop
    \/ \E ok \in BOOLEAN : PostDone(ok)

Spec == Init /\ [][Next]_vars

(***************************************************************************)
(* The priority selector and the priority resolution as pure functions.    *)
(* SpecSelect draws an input list and a configuration and applies          *)
(* _select_items_by_priority; SpecPriority draws a configuration and       *)
(* applies get_source_priority to a source name.                           *)
(***************************************************************************)
SelSources == {"A", "B", "C"}

SelItems == [id : {1, 2}, source : SelSources]

\* all lists over S of length at most n
SeqsUpTo(S, n) == UNION {[1..k -> S] : k \in 0..n}

\* how one source appears in a configuration: its entry in "sources"
\* ("absent", "plain" without a priority key, "explicit" with one) and the
\* name lists of "source_priority" that name it
SourceMode(e, p, ls) == [entry |-> e, priority |-> p, lists |-> ls]

SelNames == <<"A", "B", "C">>

RECURSIVE EntriesOf(_, _)
EntriesOf(modes, k) ==
    IF k > Len(SelNames) THEN <<>>
    ELSE (IF modes[k].entry = "absent" THEN <<>>
          ELSE <<SourceEntry(SelNames[k], modes[k].entry = "explicit", modes[k].priority)>>)
         \o EntriesOf(modes, k + 1)

SelConfig(modes, max_sources) ==
    [sources |-> EntriesOf(modes, 1),
     high_priority |-> {SelNames[k] : k \in {j \in 1..3 : "high" \in modes[j].lists}},
     medium_priority |-> {SelNames[k] : k \in {j \in 1..3 : "medium" \in modes[j].lists}},
     low_priority |-> {SelNames[k] : k \in {j \in 1..3 : "low" \in modes[j].lists}},
     max_sources_per_cycle |-> max_sources]

SelModes == {SourceMode("absent", 0, {"high"}), SourceMode("absent", 0, {"low"}),
             SourceMode("plain", 0, {"high"})}

SelConfigs == {SelConfig(<<a, b, c>>, m) :
                 a \in SelModes, b \in SelModes, c \in SelModes, m \in 0..MaxSelSources}

PrioModes ==
    {SourceMode("absent", 0, ls) : ls \in SUBSET {"high", "medium", "low"}}
    \cup {SourceMode("plain", 0, ls) : ls \in {{}, {"high"}, {"low"}}}
    \cup {SourceMode("explicit", p, ls) : p \in {1, 3, 5}, ls \in {{}, {"high"}, {"low"}}}

PrioConfigs == {SelConfig(<<a, b, SourceMode("absent", 0, {})>>, 3) :
                  a \in PrioModes, b \in PrioModes}

PipelineIdle ==
    /\ config = PipelineConfig(FALSE, FALSE, 1, 1, 1, DequeMaxLen)
    /\ post_queue = <<>>
    /\ posted_count = 0
    /\ errors_count = 0
    /\ ledger = EmptyLedger
    /\ pcCollect = "idle"
    /\ items = <<>>
    /\ to_check = <<>>
    /\ urgent_items = <<>>
    /\ fresh_items = <<>>
    /\ selected_items = <<>>
    /\ pcPost = "idle"
    /\ inflight = <<>>
    /\ cycles = 0
    /\ ticks = 0
    /\ post_attempts = 0
    /\ sink_ok = ZeroCount
    /\ mark_calls = ZeroCount
    /\ urgent_judged = {}
    /\ urgent_tried = {}
    /\ urgent_ok = {}
    /\ evicted = 0
    /\ filter_input = <<>>
    /\ filter_dropped = {}
    /\ fresh_checked = {}
    /\ urgency_checked = {}

\* nothing of the pipeline and of the specifications of the ledger, the
\* classifier, the deduplicator and the collection stage is running
BaseIdle ==
    /\ PipelineIdle
    /\ SelIdle
    /\ LedgerIdle
    /\ ClassifierIdle
    /\ DedupIdle
    /\ GatherIdle

\* what the initial state of one of the specifications of the pure
\* functions fixes outside its own variables
importanceOthersIdle ==
    /\ BaseIdle
    /\ SimilarityIdle
    /\ RetryIdle
    /\ FaultIdle
    /\ ReloadIdle
    /\ AgeIdle
    /\ RerunIdle
    /\ PostFaultIdle
    /\ LiveIdle
    /\ AdaptiveIdle

similarityOthersIdle ==
    /\ BaseIdle
    /\ ImportanceIdle
    /\ RetryIdle
    /\ FaultIdle
    /\ ReloadIdle
    /\ AgeIdle
    /\ RerunIdle
    /\ PostFaultIdle
    /\ LiveIdle
    /\ AdaptiveIdle

retryOthersIdle ==
    /\ BaseIdle
    /\ ImportanceIdle
    /\ SimilarityIdle
    /\ FaultIdle
    /\ ReloadIdle
    /\ AgeIdle
    /\ RerunIdle
    /\ PostFaultIdle
    /\ LiveIdle
    /\ AdaptiveIdle

faultOthersIdle ==
    /\ BaseIdle
    /\ ImportanceIdle
    /\ SimilarityIdle
    /\ RetryIdle
    /\ ReloadIdle
    /\ AgeIdle
    /\ RerunIdle
    /\ PostFaultIdle
    /\ LiveIdle
    /\ AdaptiveIdle

reloadOthersIdle ==
    /\ BaseIdle
    /\ ImportanceIdle
    /\ SimilarityIdle
    /\ RetryIdle
    /\ FaultIdle
    /\ AgeIdle
    /\ RerunIdle
    /\ PostFaultIdle
    /\ LiveIdle
    /\ AdaptiveIdle

ageOthersIdle ==
    /\ BaseIdle
    /\ ImportanceIdle
    /\ SimilarityIdle
    /\ RetryIdle
    /\ FaultIdle
    /\ ReloadIdle
    /\ RerunIdle
    /\ PostFaultIdle
    /\ LiveIdle
    /\ AdaptiveIdle

rerunOthersIdle ==
    /\ BaseIdle
    /\ ImportanceIdle
    /\ SimilarityIdle
    /\ RetryIdle
    /\ FaultIdle
    /\ ReloadIdle
    /\ AgeIdle
    /\ PostFaultIdle
    /\ LiveIdle
    /\ AdaptiveIdle

postfaultOthersIdle ==
    /\ BaseIdle
    /\ ImportanceIdle
    /\ SimilarityIdle
    /\ RetryIdle
    /\ FaultIdle
    /\ ReloadIdle
    /\ AgeIdle
    /\ RerunIdle
    /\ LiveIdle
    /\ AdaptiveIdle

liveOthersIdle ==
    /\ BaseIdle
    /\ ImportanceIdle
    /\ SimilarityIdle
    /\ RetryIdle
    /\ FaultIdle
    /\ ReloadIdle
    /\ AgeIdle
    /\ RerunIdle
    /\ PostFaultIdle
    /\ AdaptiveIdle

adaptiveOthersIdle ==
    /\ BaseIdle
    /\ ImportanceIdle
    /\ SimilarityIdle
    /\ RetryIdle
    /\ FaultIdle
    /\ ReloadIdle
    /\ AgeIdle
    /\ RerunIdle
    /\ PostFaultIdle
    /\ LiveIdle

InitSelect ==
    /\ PipelineIdle
    /\ AuxIdle
    /\ sel_items \in SeqsUpTo(SelItems, MaxSelLen)
    /\ sel_cfg \in SelConfigs
    /\ sel_out = <<>>
    /\ prio_name = ""
    /\ prio_out = 0
    /\ sel_pc = "input"

\* selected_items = self._select_items_by_priority(new_items, config)
RunSelect ==
    /\ sel_pc = "input"
    /\ sel_out' = select_items_by_priority(sel_items, sel_cfg)
    /\ sel_pc' = "selected"
    /\ UNCHANGED <<botVars, collectVars, postVars, histVars,
                   sel_items, sel_cfg, prio_name, prio_out, auxVars>>

NextSelect == RunSelect

SpecSelect == InitSelect /\ [][NextSelect]_vars

InitPriority ==
    /\ PipelineIdle
    /\ AuxIdle
    /\ sel_items = <<>>
    /\ sel_cfg \in PrioConfigs
    /\ sel_out = <<>>
    /\ prio_name = ""
    /\ prio_out = 0
    /\ sel_pc = "input"

\* self.get_source_priority(source, config)
ResolvePriority(source_name) ==
    /\ sel_pc = "input"
    /\ prio_name' = source_name
    /\ prio_out' = get_source_priority(source_name, sel_cfg)
    /\ sel_pc' = "resolved"
    /\ UNCHANGED <<botVars, collectVars, postVars, histVars,
                   sel_items, sel_cfg, sel_out, auxVars>>

NextPriority == \E source_name \in SelSources : ResolvePriority(source_name)

SpecPriority == InitPriority /\ [][NextPriority]_vars

(***************************************************************************)
(* The ledger contract: mark_published and is_published called on a table  *)
(* whose rows grow old; cleanup_old_entries is not called here.            *)
(***************************************************************************)
InitLedger ==
    /\ ExtIdle
    /\ PipelineIdle
    /\ SelIdle
    /\ ClassifierIdle
    /\ DedupIdle
    /\ GatherIdle
    /\ published = [i \in LedgerItems |-> "none"]
    /\ mark_returns = [i \in LedgerItems |-> <<>>]

\* mark_published(item.id, item.link, item.source, item.published_at)
MarkPublished(i) ==
    /\ Len(mark_returns[i]) < MaxMarks
    /\ published' = mark_published(published, i)
    /\ mark_returns' = [mark_returns EXCEPT
                          ![i] = Append(@, mark_published_returns(published, i))]
    /\ UNCHANGED <<botVars, collectVars, postVars, histVars, selVars,
                   classifierVars, dedupVars, gatherVars, extVars>>

\* time passes: created_at of the rows written so far falls behind
LedgerAge ==
    /\ \E i \in LedgerItems : published[i] = "new"
    /\ published' = [i \in LedgerItems |->
                        IF published[i] = "new" THEN "old" ELSE published[i]]
    /\ UNCHANGED <<botVars, collectVars, postVars, histVars, selVars, mark_returns,
                   classifierVars, dedupVars, gatherVars, extVars>>

NextLedger ==
    \/ \E i \in LedgerItems : MarkPublished(i)
    \/ LedgerAge

SpecLedger == InitLedger /\ [][NextLedger]_vars

(***************************************************************************)
(* The two checks of the classifier called on texts, with the cache of     *)
(* ai_cache.py starting empty and its entries running out of their TTL.    *)
(***************************************************************************)
InitClassifier ==
    /\ ExtIdle
    /\ PipelineIdle
    /\ SelIdle
    /\ LedgerIdle
    /\ DedupIdle
    /\ GatherIdle
    /\ cl_cfg \in [cache_enabled : BOOLEAN, up : BOOLEAN]
    /\ ai_cache = EmptyCache
    /\ cl_checks = 0
    /\ api_calls = 0
    /\ answered = EmptyCache
    /\ cl_last = <<>>
    /\ cl_defaulted = {}

\* what a check leaves behind: r is the result of the check of kind on text
Checked(kind, text, reply, r) ==
    /\ cl_checks' = cl_checks + 1
    /\ ai_cache' = r.cache
    /\ api_calls' = api_calls + (IF r.called THEN 1 ELSE 0)
    /\ answered' = [answered EXCEPT ![kind][text] = BoolText(r.ret)]
    /\ cl_last' = <<[kind |-> kind, text |-> text, ret |-> r.ret, called |-> r.called,
                     hit |-> get_cached_response(cl_cfg, ai_cache, kind, text),
                     known |-> answered[kind][text],
                     failed |-> r.called /\ reply.kind # "text"]>>
    /\ cl_defaulted' = IF r.called /\ reply.kind # "text"
                       THEN cl_defaulted \cup {<<kind, text>>}
                       ELSE IF r.called THEN cl_defaulted \ {<<kind, text>>}
                       ELSE cl_defaulted
    /\ UNCHANGED <<botVars, collectVars, postVars, histVars, selVars, ledgerVars,
                   dedupVars, gatherVars, extVars, cl_cfg>>

\* await summarizer.check_urgency(title=..., content=...)
CheckUrgency(text, reply) ==
    /\ cl_checks < MaxChecks
    /\ reply \in RepliesOf(cl_cfg.up)
    /\ Checked("urgency", text, reply, check_urgency(cl_cfg, ai_cache, text, reply))

\* await summarizer.check_news_freshness(title=..., content=..., ...)
CheckFreshness(text, reply) ==
    /\ cl_checks < MaxChecks
    /\ reply \in RepliesOf(cl_cfg.up)
    /\ Checked("freshness", text, reply, check_news_freshness(cl_cfg, ai_cache, text, reply))

\* cache_ttl_hours pass since the check of (kind, text): expires_at of its
\* entry is behind
CacheExpire(kind, text) ==
    /\ answered[kind][text] # "none"
    /\ ai_cache' = [ai_cache EXCEPT ![kind][text] = "none"]
    /\ answered' = [answered EXCEPT ![kind][text] = "none"]
    /\ cl_defaulted' = cl_defaulted \ {<<kind, text>>}
    /\ UNCHANGED <<botVars, collectVars, postVars, histVars, selVars, ledgerVars,
                   dedupVars, gatherVars, extVars, cl_cfg, cl_checks, api_calls, cl_last>>

NextClassifier ==
    \/ \E text \in Texts, reply \in Replies : CheckUrgency(text, reply)
    \/ \E text \in Texts, reply \in Replies : CheckFreshness(text, reply)
    \/ \E kind \in Kinds, text \in Texts : CacheExpire(kind, text)

SpecClassifier == InitClassifier /\ [][NextClassifier]_vars

(***************************************************************************)
(* filter_duplicates called once on a deduplicator: one just constructed,  *)
(* as process_once does in every cycle (bot.py:270-272), or one whose hash *)
(* cache earlier calls have filled.                                        *)
(***************************************************************************)
InitDedup ==
    /\ ExtIdle
    /\ PipelineIdle
    /\ SelIdle
    /\ LedgerIdle
    /\ ClassifierIdle
    /\ GatherIdle
    /\ \E n \in 0..MaxDedupLen :
          /\ dd_batch \in DedupBatches(n)
          /\ dd_sim \in DedupScores(dd_batch)
    /\ dd_out = <<>>
    /\ dd_processed \in SUBSET Hashes
    /\ dd_seen = dd_processed
    /\ dd_results = <<>>

\* unique_items, duplicate_items = deduplicator.filter_duplicates(items)
FilterDuplicates ==
    /\ dd_out = <<>>
    /\ dd_out' = <<IF dd_batch = <<>> THEN [unique |-> <<>>, duplicates |-> <<>>]
                   ELSE filter_duplicates(dd_batch, dd_sim, dd_processed)>>
    /\ dd_results' = IF dd_batch = <<>> THEN <<>>
                     ELSE find_duplicates(dd_batch, dd_sim, dd_processed)
    /\ dd_processed' = IF dd_batch = <<>> THEN dd_processed
                       ELSE processed_hashes_after(dd_batch, dd_sim, dd_processed)
    /\ UNCHANGED <<botVars, collectVars, postVars, histVars, selVars, ledgerVars,
                   classifierVars, gatherVars, extVars, dd_batch, dd_sim, dd_seen>>

\* a list of items of the batch as a batch of its own: an item is known by
\* its place in the list it is in
Renumbered(its) == [k \in 1..Len(its) |-> [its[k] EXCEPT !.id = k]]

\* the scores of the pairs of a list of items of the batch
ScoresOf(its, sim) ==
    [p \in Pairs(Len(its)) |-> sim[<<its[p[1]].id, its[p[2]].id>>]]

\* the same deduplicator is given the unique list it returned
FilterDuplicatesAgain ==
    /\ dd_out # <<>>
    /\ dd_again = <<>>
    /\ LET its == dd_out[1].unique
           batch == Renumbered(its)
           sim == ScoresOf(its, dd_sim)
       IN /\ dd_again' = <<IF its = <<>> THEN [unique |-> <<>>, duplicates |-> <<>>]
                           ELSE filter_duplicates(batch, sim, dd_processed)>>
          /\ dd_again_results' = IF its = <<>> THEN <<>>
                                 ELSE find_duplicates(batch, sim, dd_processed)
          /\ dd_processed' = IF its = <<>> THEN dd_processed
                             ELSE processed_hashes_after(batch, sim, dd_processed)
    /\ UNCHANGED <<botVars, collectVars, postVars, histVars, selVars, ledgerVars,
                   classifierVars, gatherVars, dd_batch, dd_sim, dd_out, dd_seen,
                   dd_results>>
    /\ UNCHANGED <<importanceVars, similarityVars, retryVars, faultVars,
                   reloadVars, ageVars, postfaultVars, liveVars,
                   adaptiveVars>>

NextDedup == FilterDuplicates \/ FilterDuplicatesAgain

SpecDedup == InitDedup /\ [][NextDedup]_vars

(***************************************************************************)
(* The collection stage of process_once (bot.py:203-260) with one RSS      *)
(* source "A", one HTML source "B" and the three optional collectors, each *)
(* able to deliver one item.  The classifier is disabled, so the rest of   *)
(* the cycle runs without an await.  recent tells whether filter_items     *)
(* keeps the item (no keyword filter is configured).  What a fetch did is  *)
(* an outcome: whether it raised, and the entries it had parsed by then.   *)
(***************************************************************************)
GatherSourceNames == {"A", "B", "GitHub Trending", "Google News (A)", "Telegram: T"}

GatherItems == [id : {1}, source : GatherSourceNames, recent : BOOLEAN]

GItem(s, r) == [id |-> 1, source |-> s, recent |-> r]

\* outcomes of the fetch of a source of config["sources"]
FetchOutcomes(s) ==
    [raised : BOOLEAN, got : {<<>>, <<GItem(s, TRUE)>>, <<GItem(s, FALSE)>>}]

\* outcomes of an optional collector: all its fetches went well ("ok"); a
\* fetch failed and the collector caught the exception itself and returned
\* the items it had by then ("partial": alternative_sources.py:252-255 and
\* 274-280, google_news.py:149-152, telegram_channels.py:194-199); its
\* module could not be imported; an exception left it
CollectorOutcomes(s) ==
    [kind : {"ok", "partial"}, got : {<<>>, <<GItem(s, TRUE)>>}]
    \cup {[kind |-> "import_error", got |-> <<>>], [kind |-> "raise", got |-> <<>>]}

\* mutant: the entries parsed before the exception are returned
parse_rss_partial(o) == [items |-> o.got, raises |-> FALSE]

\* parser.parse_rss: the whole body is inside try/except Exception
parse_rss(o) == [items |-> IF o.raised THEN <<>> ELSE o.got, raises |-> FALSE]

\* parser.parse_html: the request and the parsing are inside try/except
parse_html(o) == [items |-> IF o.raised THEN <<>> ELSE o.got, raises |-> FALSE]

\* parser.filter_items without keywords: the items not older than the cutoff
filter_items(its) == SelectSeq(its, LAMBDA i : i.recent)

\* parser.collect_news: nothing is caught here, an exception of a parser
\* would leave it
collect_news(oA, oB) ==
    LET rss == parse_rss(oA)
        html == parse_html(oB)
    IN [items |-> filter_items(rss.items \o html.items),
        raises |-> rss.raises \/ html.raises]

\* one of the three guarded blocks of process_once (bot.py:214-257); st is
\* items and errors_count with the history of the cycle
OptionalCollector(enabled, name, o, st) ==
    IF ~enabled THEN st
    ELSE IF o.kind = "ok"
    THEN [st EXCEPT !.items = @ \o o.got, !.ok_items = @ \o o.got]
    ELSE IF o.kind = "partial"
    THEN [st EXCEPT !.items = @ \o o.got, !.partial = @ \o o.got,
                    !.failed = @ \cup {name}]
    ELSE IF o.kind = "import_error"
    THEN [st EXCEPT !.failed = @ \cup {name}]
    ELSE [st EXCEPT !.errors = @ + 1, !.failed = @ \cup {name}]

\* the story of source "A" comes back through Google News: the two items
\* are near-duplicates of each other; all other items are unrelated
GatherSim(x, y) ==
    IF {x.source, y.source} = {"A", "Google News (A)"} THEN 7 ELSE 6

\* bot.py:263-273: items = SmartDeduplicator(dedup_config).filter_duplicates(items)[0]
GatherDedup(its) ==
    IF its = <<>> THEN <<>>
    ELSE LET batch == [k \in 1..Len(its) |->
                          [id |-> k, title |-> "long", hash |-> its[k].source]]
             sim == [p \in Pairs(Len(its)) |-> GatherSim(its[p[1]], its[p[2]])]
             unique == filter_duplicates(batch, sim, {}).unique
         IN [k \in 1..Len(unique) |-> its[unique[k].id]]

GatherPriority ==
    [sources |-> <<>>, high_priority |-> {"A"}, medium_priority |-> {},
     low_priority |-> {"B"}, max_sources_per_cycle |-> 2]

\* bot.py:262-297 without the classifier: deduplicate, drop what the ledger
\* holds, select
GatherSelect(its, led) ==
    LET new_items == Unpublished(led, GatherDedup(its))
    IN IF new_items # <<>> THEN select_items_by_priority(new_items, GatherPriority)
       ELSE <<>>

InitCollect ==
    /\ ExtIdle
    /\ PipelineIdle
    /\ SelIdle
    /\ LedgerIdle
    /\ ClassifierIdle
    /\ DedupIdle
    /\ g_cfg \in [alternative : BOOLEAN, google : BOOLEAN, telegram : BOOLEAN]
    /\ \E P \in SUBSET {"A", "Telegram: T"} :
          g_ledger = [i \in GatherItems |-> IF i.source \in P THEN "new" ELSE "none"]
    /\ g_pc = "idle"
    /\ g_items = <<>>
    /\ g_errors = 0
    /\ g_queue = <<>>
    /\ g_selected = <<>>
    /\ g_cycles = 0
    /\ g_failed = {}
    /\ g_ok_items = <<>>
    /\ g_partial = <<>>
    /\ g_collected = <<>>
    /\ g_aborted = FALSE

GatherState ==
    [items |-> g_items, errors |-> g_errors, failed |-> g_failed,
     ok_items |-> g_ok_items, partial |-> g_partial]

\* process_once waits for a collector
GatherSuspend(pc, st) ==
    /\ g_pc' = pc
    /\ g_items' = st.items
    /\ g_errors' = st.errors
    /\ g_failed' = st.failed
    /\ g_ok_items' = st.ok_items
    /\ g_partial' = st.partial
    /\ g_collected' = <<>>
    /\ g_selected' = <<>>
    /\ g_aborted' = FALSE
    /\ UNCHANGED g_queue

\* bot.py:259-302: the cycle ends
GatherFinish(st) ==
    LET sel == GatherSelect(st.items, g_ledger)
    IN /\ g_pc' = "idle"
       /\ g_items' = <<>>
       /\ g_errors' = st.errors
       /\ g_failed' = st.failed
       /\ g_ok_items' = st.ok_items
       /\ g_partial' = st.partial
       /\ g_collected' = st.items
       /\ g_selected' = sel
       /\ g_queue' = DequeExtend(g_queue, [k \in 1..Len(sel) |-> Entry(sel[k], 0)])
       /\ g_aborted' = FALSE

\* an exception leaves process_once: nothing of the cycle is enqueued
GatherAbort ==
    /\ g_pc' = "idle"
    /\ g_items' = <<>>
    /\ g_failed' = {}
    /\ g_ok_items' = <<>>
    /\ g_partial' = <<>>
    /\ g_collected' = <<>>
    /\ g_selected' = <<>>
    /\ g_aborted' = TRUE
    /\ UNCHANGED <<g_errors, g_queue>>

\* bot.py:229-257: Google News is collected without an await, then the
\* Telegram channels are awaited
AfterAlternative(st, oG) ==
    LET st1 == OptionalCollector(g_cfg.google, "google", oG, st)
    IN IF g_cfg.telegram THEN GatherSuspend("telegram", st1) ELSE GatherFinish(st1)

\* bot.py:203-221: collect_news, then the alternative sources are awaited
GatherStart(oA, oB, oG) ==
    /\ g_pc = "idle"
    /\ g_cycles < MaxGatherCycles
    /\ g_cycles' = g_cycles + 1
    /\ LET r == collect_news(oA, oB)
           st == [items |-> r.items, errors |-> g_errors,
                  failed |-> {s \in {"A"} : oA.raised} \cup {s \in {"B"} : oB.raised},
                  ok_items |-> filter_items((IF oA.raised THEN <<>> ELSE oA.got)
                                            \o (IF oB.raised THEN <<>> ELSE oB.got)),
                  partial |-> <<>>]
       IN IF r.raises THEN GatherAbort
          ELSE IF g_cfg.alternative THEN GatherSuspend("alt", st)
          ELSE AfterAlternative(st, oG)
    /\ UNCHANGED <<botVars, collectVars, postVars, histVars, selVars, ledgerVars,
                   classifierVars, dedupVars, extVars, g_cfg, g_ledger>>

\* bot.py:217-227: collect_all_alternative_sources returned or raised
AlternativeDone(oAlt, oG) ==
    /\ g_pc = "alt"
    /\ AfterAlternative(OptionalCollector(TRUE, "alternative", oAlt, GatherState), oG)
    /\ UNCHANGED <<botVars, collectVars, postVars, histVars, selVars, ledgerVars,
                   classifierVars, dedupVars, extVars, g_cfg, g_ledger, g_cycles>>

\* bot.py:247-257: TelegramCollector.collect_all returned or raised
TelegramDone(oT) ==
    /\ g_pc = "telegram"
    /\ GatherFinish(OptionalCollector(TRUE, "telegram", oT, GatherState))
    /\ UNCHANGED <<botVars, collectVars, postVars, histVars, selVars, ledgerVars,
                   classifierVars, dedupVars, extVars, g_cfg, g_ledger, g_cycles>>

NextCollect ==
    \/ \E oA \in FetchOutcomes("A"), oB \in FetchOutcomes("B"),
          oG \in CollectorOutcomes("Google News (A)") : GatherStart(oA, oB, oG)
    \/ \E oAlt \in CollectorOutcomes("GitHub Trending"),
          oG \in CollectorOutcomes("Google News (A)") : AlternativeDone(oAlt, oG)
    \/ \E oT \in CollectorOutcomes("Telegram: T") : TelegramDone(oT)

SpecCollect == InitCollect /\ [][NextCollect]_vars

(***************************************************************************)
(* The importance scorer (src/news_importance_analyzer.py).  A text is the *)
(* set of the words of title and content, taken from a vocabulary of words *)
(* of the analyzer's keyword sets; "keyword in full_text" is a substring   *)
(* test, so a word brings every keyword it contains.  The keyword sets are *)
(* the analyzer's, cut down to the keywords the vocabulary can bring.      *)
(* Scores are in tenths.                                                   *)
(***************************************************************************)
ImportanceWords ==
    {"war", "attack", "arrest", "award", "mayor", "governor", "family", "wedding",
     "president", "million", "breaking", "russia"}

\* the keywords of the analyzer's sets that are substrings of a word
KeywordsIn(w) ==
    CASE w = "award" -> {"award", "war"}
      [] w = "russia" -> {"russia", "us"}
      [] OTHER -> {w}

critical_keywords == {"war", "attack", "arrest", "russia"}

ru_ua_keywords == {"russia"}

uninteresting_us_keywords == {"family", "wedding", "award", "mayor", "governor", "arrest"}

family_keywords == {"family", "wedding"}

high_priority_keywords == {"president"}

important_entities == {"russia", "us"}

importance_numbers == {"million"}

urgent_words == {"breaking"}

\* sum(1 for keyword in keywords if keyword in full_text)
Matches(keywords, text) ==
    Cardinality({k \in keywords : \E w \in text : k \in KeywordsIn(w)})

\* score as analyze_importance has it before the return statement
raw_score(text, long) ==
    (IF Matches(critical_keywords, text) > 0 THEN 5 ELSE 0)
    + (IF Matches(critical_keywords, text) >= 2 THEN 2 ELSE 0)
    + (IF Matches(ru_ua_keywords, text) > 0 THEN 4 ELSE 0)
    - (IF Matches(uninteresting_us_keywords, text) >= 3 THEN 5 ELSE 0)
    - (IF Matches(family_keywords, text) >= 2 THEN 3 ELSE 0)
    + (IF Matches(high_priority_keywords, text) > 0 THEN 3 ELSE 0)
    + (IF Matches(important_entities, text) > 0 THEN 2 ELSE 0)
    + (IF Matches(importance_numbers, text) > 0 THEN 1 ELSE 0)
    + (IF long THEN 1 ELSE 0)
    + (IF Matches(urgent_words, text) > 0 THEN 2 ELSE 0)

\* the category is taken from the score before min(score, 1.0)
importance_category(score) ==
    IF score >= 7 THEN "critical"
    ELSE IF score >= 5 THEN "high"
    ELSE IF score >= 3 THEN "medium"
    ELSE "low"

\* NewsImportanceAnalyzer.analyze_importance:
\* ImportanceScore(score=min(score, 1.0), category=category, ...)
analyze_importance(text, long) ==
    [score |-> Min(raw_score(text, long), 10),
     category |-> importance_category(raw_score(text, long))]

InitImportance ==
    /\ importanceOthersIdle
    /\ imp_text \in {t \in SUBSET ImportanceWords : Cardinality(t) <= MaxWords}
    /\ imp_long \in BOOLEAN
    /\ imp_out = <<>>
    /\ imp_before = <<>>

\* analyzer.analyze_importance(title, content)
AnalyzeImportance ==
    /\ imp_out = <<>>
    /\ imp_out' = <<analyze_importance(imp_text, imp_long)>>
    /\ UNCHANGED <<importanceFrame, imp_text, imp_long, imp_before>>

\* the same text with one more word is analyzed
AnalyzeWithWord(w) ==
    /\ imp_out # <<>>
    /\ imp_before = <<>>
    /\ w \notin imp_text
    /\ imp_before' = <<[text |-> imp_text, out |-> imp_out[1], added |-> w]>>
    /\ imp_text' = imp_text \cup {w}
    /\ imp_out' = <<analyze_importance(imp_text \cup {w}, imp_long)>>
    /\ UNCHANGED <<importanceFrame, imp_long>>

NextImportance ==
    \/ AnalyzeImportance
    \/ \E w \in ImportanceWords : AnalyzeWithWord(w)

SpecImportance == InitImportance /\ [][NextImportance]_vars

(***************************************************************************)
(* The text similarity of the deduplicator                                 *)
(* (SmartDeduplicator._calculate_similarity).  A text is one word of the   *)
(* letters a and b: _normalize_text leaves it as it is, and its key        *)
(* phrases are the word itself when it has more than 2 letters.  The       *)
(* sequence ratio is difflib.SequenceMatcher(None, a, b).ratio(), with no  *)
(* junk (the texts are shorter than 200 characters).  A similarity is the  *)
(* fraction num/den.                                                       *)
(***************************************************************************)
Letters == {"a", "b"}

SimilarityTexts == UNION {[1..n -> Letters] : n \in 0..MaxTextLen}

\* a[i .. i+k-1] = b[j .. j+k-1]
BlockMatches(a, b, i, j, k) == \A d \in 0..(k - 1) : a[i + d] = b[j + d]

\* SequenceMatcher.find_longest_match on a[alo..ahi] and b[blo..bhi]: the
\* longest matching block; of the longest, one that starts earliest in a,
\* and of those the one that starts earliest in b
find_longest_match(a, b, alo, ahi, blo, bhi) ==
    LET blocks == {m \in (alo..ahi) \X (blo..bhi) \X (1..Len(a)) :
                      /\ m[1] + m[3] - 1 <= ahi
                      /\ m[2] + m[3] - 1 <= bhi
                      /\ BlockMatches(a, b, m[1], m[2], m[3])}
    IN IF blocks = {} THEN <<alo, blo, 0>>
       ELSE CHOOSE m \in blocks :
               \A o \in blocks :
                   \/ m[3] > o[3]
                   \/ m[3] = o[3] /\ m[1] < o[1]
                   \/ m[3] = o[3] /\ m[1] = o[1] /\ m[2] <= o[2]

RECURSIVE matching_size(_, _, _, _, _, _)
\* SequenceMatcher.get_matching_blocks: the sum of the sizes of the blocks,
\* found by matching to the left and to the right of the longest block
matching_size(a, b, alo, ahi, blo, bhi) ==
    IF alo > ahi \/ blo > bhi THEN 0
    ELSE LET m == find_longest_match(a, b, alo, ahi, blo, bhi)
         IN IF m[3] = 0 THEN 0
            ELSE m[3]
                 + matching_size(a, b, alo, m[1] - 1, blo, m[2] - 1)
                 + matching_size(a, b, m[1] + m[3], ahi, m[2] + m[3], bhi)

\* the number of matched characters of ratio() = 2.0 * matches / length
sequence_matches(a, b) == matching_size(a, b, 1, Len(a), 1, Len(b))

\* _extract_key_phrases of a one-word text: words longer than 2 characters
extract_key_phrases(text) == IF Len(text) > 2 THEN {text} ELSE {}

\* SmartDeduplicator._calculate_similarity(text1, text2)
calculate_similarity(text1, text2) ==
    IF text1 = <<>> \/ text2 = <<>> THEN [num |-> 0, den |-> 1]
    ELSE LET length == Len(text1) + Len(text2)
             matches == sequence_matches(text1, text2)
             phrases1 == extract_key_phrases(text1)
             phrases2 == extract_key_phrases(text2)
             in_both == Cardinality(phrases1 \cap phrases2)
             in_any == Cardinality(phrases1 \cup phrases2)
         IN IF phrases1 = {} \/ phrases2 = {}
            THEN [num |-> 2 * matches, den |-> length]
            ELSE \* basic_similarity * 0.3 + phrase_similarity * 0.7
                 [num |-> 3 * 2 * matches * in_any + 7 * in_both * length,
                  den |-> 10 * length * in_any]

InitSimilarity ==
    /\ similarityOthersIdle
    /\ sm_text1 \in SimilarityTexts
    /\ sm_text2 \in SimilarityTexts
    /\ sm_out = <<>>

\* the similarity is computed in both orders of the two texts
CalculateSimilarity ==
    /\ sm_out = <<>>
    /\ sm_out' = <<[forward |-> calculate_similarity(sm_text1, sm_text2),
                    backward |-> calculate_similarity(sm_text2, sm_text1)]>>
    /\ UNCHANGED <<similarityFrame, sm_text1, sm_text2>>

NextSimilarity == CalculateSimilarity

SpecSimilarity == InitSimilarity /\ [][NextSimilarity]_vars

(***************************************************************************)
(* The retry of the ledger operations (db.mark_published, db.is_published: *)
(* tenacity.retry around a body that opens the database with               *)
(* get_connection).  One call is followed through its executions.          *)
(***************************************************************************)
\* stop=stop_after_attempt(3)
stop_after_attempt == 3

LedgerOps == {"mark_published", "is_published"}

\* what sqlite does during one execution of the body: the statement runs, or
\* sqlite3.OperationalError('database is locked'), or another sqlite3.Error,
\* or an exception that is not of sqlite3
DbOutcomes == {"ok", "OperationalError", "sqlite3.Error", "Exception"}

\* get_connection: an exception thrown inside the with block comes back to
\* the generator at its yield, where except sqlite3.OperationalError turns
\* it into DatabaseConnectionError and except sqlite3.Error into
\* DatabaseError; any other exception passes
get_connection(outcome) ==
    CASE outcome = "ok" -> "none"
      [] outcome = "OperationalError" -> "DatabaseConnectionError"
      [] outcome = "sqlite3.Error" -> "DatabaseError"
      [] OTHER -> outcome

IsDatabaseError(exc) ==
    exc \in {"DatabaseError", "DatabaseConnectionError", "DatabaseOperationError"}

\* the except clauses of mark_published and is_published, applied to what
\* leaves the with block
ledger_body(outcome) ==
    LET exc == get_connection(outcome)
    IN CASE exc = "none" -> "none"
         [] IsDatabaseError(exc) -> exc                \* except DatabaseError: raise
         [] exc = "OperationalError" -> exc            \* except sqlite3.OperationalError: raise
         [] OTHER -> "DatabaseOperationError"          \* except Exception

\* retry=retry_if_exception_type(sqlite3.OperationalError)
retry_if_exception_type(exc) == exc = "OperationalError"

InitRetry ==
    /\ retryOthersIdle
    /\ rt_op \in LedgerOps
    /\ rt_outcomes \in [1..stop_after_attempt -> DbOutcomes]
    /\ rt_attempts = 0
    /\ rt_raised = "none"
    /\ rt_state = "ready"
    /\ rt_result = "none"

\* one execution of the decorated function's body
LedgerAttempt ==
    /\ rt_state = "ready"
    /\ rt_attempts < stop_after_attempt
    /\ rt_attempts' = rt_attempts + 1
    /\ rt_raised' = ledger_body(rt_outcomes[rt_attempts + 1])
    /\ rt_state' = "executed"
    /\ UNCHANGED <<retryFrame, rt_op, rt_outcomes, rt_result>>

\* tenacity after an execution: the value is returned; an exception is
\* retried after the wait if it is of the retried type and attempts remain,
\* and reaches the caller otherwise
LedgerDecide ==
    /\ rt_state = "executed"
    /\ IF rt_raised = "none"
       THEN rt_state' = "done" /\ rt_result' = "returned"
       ELSE IF retry_if_exception_type(rt_raised) /\ rt_attempts < stop_after_attempt
            THEN rt_state' = "ready" /\ rt_result' = rt_result
            ELSE rt_state' = "done" /\ rt_result' = rt_raised
    /\ UNCHANGED <<retryFrame, rt_op, rt_outcomes, rt_attempts, rt_raised>>

NextRetry == LedgerAttempt \/ LedgerDecide

SpecRetry == InitRetry /\ [][NextRetry]_vars

(***************************************************************************)
(* A collection cycle whose ledger checks may raise (NewsBot.process_once  *)
(* from the call of process_urgent_news on, bot.py:279-297).  is_published *)
(* is called inside list comprehensions, with no except clause there or in *)
(* process_once: an exception of one call leaves process_once.  The caps   *)
(* max_urgency_checks (10) and max_freshness_checks (15) exceed the batch. *)
(***************************************************************************)
FaultBatches ==
    {b \in [1..MaxFaultItems -> [id : 1..MaxFaultItems, source : {"A", "B"}]] :
        \A k \in 1..MaxFaultItems : b[k].id = k}

\* the calls of is_published that raise in one list comprehension: none, or
\* the call for one item (the first exception ends the comprehension)
CheckFaults(batch) == {F \in SUBSET Range(batch) : Cardinality(F) <= 1}

InitFault ==
    /\ faultOthersIdle
    /\ lf_batch \in FaultBatches
    /\ lf_ai \in BOOLEAN
    /\ lf_ledger \in [Range(lf_batch) -> {"none", "new"}]
    /\ lf_phase = "urgent"
    /\ lf_failed = {}
    /\ lf_queue = <<>>

\* NewsBot.process_urgent_news: returns at once without the classifier;
\* otherwise checks the ledger for every item, and posts and marks the items
\* found urgent whose post went well
FaultProcessUrgentNews ==
    /\ lf_phase = "urgent"
    /\ IF ~lf_ai
       THEN /\ lf_phase' = "filter"
            /\ UNCHANGED <<lf_ledger, lf_failed>>
       ELSE \E F \in CheckFaults(lf_batch) :
              IF F # {}
              THEN /\ lf_failed' = F
                   /\ lf_phase' = "aborted"
                   /\ UNCHANGED lf_ledger
              ELSE \E posted \in SUBSET Range(Unpublished(lf_ledger, lf_batch)) :
                     /\ lf_ledger' = [i \in DOMAIN lf_ledger |->
                                         IF i \in posted THEN "new" ELSE lf_ledger[i]]
                     /\ lf_phase' = "filter"
                     /\ UNCHANGED lf_failed
    /\ UNCHANGED <<faultFrame, lf_batch, lf_ai, lf_queue>>

\* NewsBot._filter_fresh_items, then the selection and the appends to the
\* post queue (bot.py:282-297)
FaultFilterAndEnqueue ==
    /\ lf_phase = "filter"
    /\ \E F \in CheckFaults(lf_batch) :
         IF F # {}
         THEN /\ lf_failed' = F
              /\ lf_phase' = "aborted"
              /\ UNCHANGED lf_queue
         ELSE \E stale \in SUBSET Range(Unpublished(lf_ledger, lf_batch)) :
                /\ lf_ai \/ stale = {}
                /\ LET kept == SelectSeq(Unpublished(lf_ledger, lf_batch),
                                         LAMBDA i : i \notin stale)
                   IN lf_queue' = IF kept # <<>>
                                  THEN select_items_by_priority(kept, GatherPriority)
                                  ELSE <<>>
                /\ lf_phase' = "done"
                /\ UNCHANGED lf_failed
    /\ UNCHANGED <<faultFrame, lf_batch, lf_ai, lf_ledger>>

NextFault == FaultProcessUrgentNews \/ FaultFilterAndEnqueue

SpecFault == InitFault /\ [][NextFault]_vars

(***************************************************************************)
(* The configuration of the running bot (NewsBot.run, ConfigManager).  The *)
(* file config.json is written by another program (admin_bot.py,           *)
(* add_sources_config.py or an editor); a configuration is the pair of two *)
(* of its settings.                                                        *)
(***************************************************************************)
ConfigValues == [max_sources_per_cycle : {1, 2}, similarity_threshold : {6, 7}]

\* ConfigManager.load_config(): the cached configuration unless there is
\* none or _check_reload() finds the file newer than _last_modified
load_config(file, mtime, cached, last_modified) ==
    IF cached # <<>> /\ ~(mtime > last_modified)
    THEN [config |-> cached, last_modified |-> last_modified]
    ELSE [config |-> <<file>>, last_modified |-> mtime]

InitReload ==
    /\ reloadOthersIdle
    /\ cf_file \in ConfigValues
    /\ cf_mtime = 1
    /\ cf_config = <<>>
    /\ cf_last_modified = 0
    /\ cf_job = <<>>
    /\ cf_cycles = <<>>

\* NewsBot.run up to scheduler.start(): config = self.get_config(), the
\* first cycle process_once(config), and add_job(self.process_once,
\* "interval", args=[config])
ReloadRun ==
    /\ cf_job = <<>>
    /\ LET loaded == load_config(cf_file, cf_mtime, cf_config, cf_last_modified)
       IN /\ cf_config' = loaded.config
          /\ cf_last_modified' = loaded.last_modified
          /\ cf_cycles' = <<[config |-> loaded.config[1], on_disk |-> cf_file]>>
          /\ cf_job' = loaded.config
    /\ UNCHANGED <<reloadFrame, cf_file, cf_mtime>>

\* config.json is saved with another content between two cycles
ReloadSave(v) ==
    /\ cf_job # <<>>
    /\ cf_mtime <= MaxConfigSaves
    /\ v # cf_file
    /\ cf_file' = v
    /\ cf_mtime' = cf_mtime + 1
    /\ UNCHANGED <<reloadFrame, cf_config, cf_last_modified, cf_job, cf_cycles>>

\* the scheduler runs the job: process_once(*args) with the args given to
\* add_job
ReloadScheduledCycle ==
    /\ cf_job # <<>>
    /\ Len(cf_cycles) < MaxReloadCycles
    /\ cf_cycles' = Append(cf_cycles, [config |-> cf_job[1], on_disk |-> cf_file])
    /\ UNCHANGED <<reloadFrame, cf_file, cf_mtime, cf_config, cf_last_modified, cf_job>>

NextReload ==
    \/ ReloadRun
    \/ \E v \in ConfigValues : ReloadSave(v)
    \/ ReloadScheduledCycle

SpecReload == InitReload /\ [][NextReload]_vars

(***************************************************************************)
(* The age filter of the collector (parser.filter_items).  Time is counted *)
(* in minutes and an hour has MinutesPerHour of them.  published_at is     *)
(* absent (None), a text that is not an ISO 8601 date, or a date: its      *)
(* time as written and its UTC offset, "naive" when it has none ('Z' is    *)
(* read as +00:00).  An item also says whether the keyword lists reject    *)
(* its text.                                                               *)
(***************************************************************************)
MinutesPerHour == 2

UtcOffsets == {"naive", "+00:00", "-05:00"}

PublishedAtValues ==
    [kind : {"absent", "unparseable"}, time : {0}, offset : {"naive"}]
    \cup [kind : {"date"}, time : 0..MaxStamp, offset : UtcOffsets]

AgeItems == [id : 1..MaxAgeItems, published_at : PublishedAtValues,
             keyword_rejected : BOOLEAN]

AgeBatches ==
    UNION {{b \in [1..n -> AgeItems] : \A k \in 1..n : b[k].id = k} :
              n \in 0..MaxAgeItems}

\* cutoff_time (parser.py:220-224): max_age_minutes overrides max_age_hours
\* when it is not None
cutoff_time(now, max_age_hours, max_age_minutes) ==
    IF max_age_minutes # <<>> THEN now - max_age_minutes[1]
    ELSE now - max_age_hours * MinutesPerHour

\* datetime.fromisoformat(...) then replace(tzinfo=None): the time as it is
\* written; the offset is dropped, the time is not converted
item_time(published_at) == published_at.time

\* mutant: an item whose date cannot be read is rejected
is_recent_strict(item, cutoff) ==
    IF item.published_at.kind # "date" THEN FALSE
    ELSE item_time(item.published_at) >= cutoff

\* is_recent (parser.py:228-238): ValueError and AttributeError mean recent
is_recent(item, cutoff) ==
    IF item.published_at.kind # "date" THEN TRUE
    ELSE item_time(item.published_at) >= cutoff

\* parser.filter_items: the date first, then the keywords
filter_items_by_age(its, max_age_hours, max_age_minutes, now) ==
    SelectSeq(its, LAMBDA item :
        /\ is_recent(item, cutoff_time(now, max_age_hours, max_age_minutes))
        /\ ~item.keyword_rejected)

InitAge ==
    /\ ageOthersIdle
    /\ ag_items \in AgeBatches
    /\ ag_now \in 0..MaxStamp
    /\ ag_max_age_hours \in {0, 1}
    /\ ag_max_age_minutes \in {<<>>} \cup {<<m>> : m \in 0..MaxStamp}
    /\ ag_out = <<>>

FilterItems ==
    /\ ag_out = <<>>
    /\ ag_out' = <<filter_items_by_age(ag_items, ag_max_age_hours,
                                       ag_max_age_minutes, ag_now)>>
    /\ UNCHANGED <<ageFrame, ag_items, ag_now, ag_max_age_hours, ag_max_age_minutes>>

NextAge == FilterItems

SpecAge == InitAge /\ [][NextAge]_vars

(***************************************************************************)
(* The post tick when the ledger write may raise (process_post_queue,      *)
(* bot.py:184-201).  post_news_item and mark_published stand in one try    *)
(* block; what the two calls did is an outcome: "posted" (both returned),  *)
(* "post_raised" (post_news_item raised, mark_published was not reached)   *)
(* or "mark_raised" (the sink accepted the message and mark_published      *)
(* raised, as db.mark_published does for a DatabaseError).                 *)
(***************************************************************************)
PostOutcomes == {"posted", "post_raised", "mark_raised"}

InitPostFault ==
    /\ postfaultOthersIdle
    /\ pf_queue \in {[k \in 1..Len(q) |-> Entry(q[k], 0)] :
                        q \in DistinctSeqs(Items, DequeMaxLen)}
    /\ pf_inflight = <<>>
    /\ pf_ledger = EmptyLedger
    /\ pf_sink = ZeroCount
    /\ pf_errors = 0
    /\ pf_posted = 0
    /\ pf_ticks = 0

\* bot.py:186-187: a tick on an empty queue returns at once
PostFaultTickEmpty ==
    /\ pf_inflight = <<>>
    /\ pf_ticks < MaxFaultTicks
    /\ pf_queue = <<>>
    /\ pf_ticks' = pf_ticks + 1
    /\ UNCHANGED <<postfaultFrame, pf_queue, pf_inflight, pf_ledger, pf_sink,
                   pf_errors, pf_posted>>

\* bot.py:189-192: popleft, then post_news_item is awaited
PostFaultTickPop ==
    /\ pf_inflight = <<>>
    /\ pf_ticks < MaxFaultTicks
    /\ pf_queue # <<>>
    /\ pf_ticks' = pf_ticks + 1
    /\ pf_inflight' = <<Head(pf_queue)>>
    /\ pf_queue' = Tail(pf_queue)
    /\ UNCHANGED <<postfaultFrame, pf_ledger, pf_sink, pf_errors, pf_posted>>

\* bot.py:192-201: the rest of the try block and its except clause
PostFaultDone(outcome) ==
    /\ pf_inflight # <<>>
    /\ LET entry == pf_inflight[1]
           item == entry.item
       IN /\ pf_sink' = IF outcome = "post_raised" THEN pf_sink
                        ELSE [pf_sink EXCEPT ![item] = @ + 1]
          /\ IF outcome = "posted"
             THEN /\ pf_ledger' = mark_published(pf_ledger, item)
                  /\ pf_posted' = pf_posted + 1
                  /\ UNCHANGED <<pf_errors, pf_queue>>
             ELSE /\ pf_errors' = pf_errors + 1
                  /\ pf_queue' = IF Len(pf_queue) < DequeMaxLen
                                 THEN Append(pf_queue, Entry(item, entry.tries + 1))
                                 ELSE pf_queue
                  /\ UNCHANGED <<pf_ledger, pf_posted>>
    /\ pf_inflight' = <<>>
    /\ UNCHANGED <<postfaultFrame, pf_ticks>>

NextPostFault ==
    \/ PostFaultTickEmpty
    \/ PostFaultTickPop
    \/ \E outcome \in PostOutcomes : PostFaultDone(outcome)

SpecPostFault == InitPostFault /\ [][NextPostFault]_vars

(***************************************************************************)
(* The post task when its ticks never stop (NewsBot.run adds the job       *)
(* post-from-queue with an interval trigger, bot.py:415-428; the scheduler *)
(* starts no run of a job while its previous run is not over).  Collection *)
(* cycles append entries MaxLiveEntries times in all; the ticks are not    *)
(* counted.  An entry is its serial number.                                *)
(***************************************************************************)
InitLive ==
    /\ liveOthersIdle
    /\ lv_queue = <<>>
    /\ lv_inflight = <<>>
    /\ lv_serial = 0
    /\ lv_evicted = {}

\* for item in selected_items: post_queue.append(...) with n selected items
LiveEnqueue(n) ==
    /\ lv_serial + n <= MaxLiveEntries
    /\ LET entries == [k \in 1..n |-> lv_serial + k]
       IN /\ lv_queue' = DequeExtend(lv_queue, entries)
          /\ lv_evicted' = lv_evicted \cup
                              (Range(lv_queue \o entries) \ Range(lv_queue'))
    /\ lv_serial' = lv_serial + n
    /\ UNCHANGED <<liveFrame, lv_inflight>>

\* bot.py:184-192: a tick returns at once on an empty queue, and takes the
\* head otherwise
LiveTick ==
    /\ lv_inflight = <<>>
    /\ IF lv_queue = <<>>
       THEN UNCHANGED <<lv_queue, lv_inflight>>
       ELSE /\ lv_inflight' = <<Head(lv_queue)>>
            /\ lv_queue' = Tail(lv_queue)
    /\ UNCHANGED <<liveFrame, lv_serial, lv_evicted>>

\* mutant: the failed entry is put back at the head of the queue
LiveDoneRequeueAtHead(ok) ==
    /\ lv_inflight # <<>>
    /\ lv_queue' = IF ~ok /\ Len(lv_queue) < DequeMaxLen
                   THEN <<lv_inflight[1]>> \o lv_queue
                   ELSE lv_queue
    /\ lv_inflight' = <<>>
    /\ UNCHANGED <<liveFrame, lv_serial, lv_evicted>>

\* bot.py:192-201: post_news_item returns (ok) or raises
LiveDone(ok) ==
    /\ lv_inflight # <<>>
    /\ lv_queue' = IF ~ok /\ Len(lv_queue) < DequeMaxLen
                   THEN Append(lv_queue, lv_inflight[1])
                   ELSE lv_queue
    /\ lv_inflight' = <<>>
    /\ UNCHANGED <<liveFrame, lv_serial, lv_evicted>>

LivePostReturns == \E ok \in BOOLEAN : LiveDone(ok)

NextLive ==
    \/ \E n \in 1..MaxBatch : LiveEnqueue(n)
    \/ LiveTick
    \/ LivePostReturns

\* the ticks keep firing and every call of post_news_item returns or raises
\* (its requests have timeouts)
SpecLive ==
    /\ InitLive
    /\ [][NextLive]_vars
    /\ WF_vars(LiveTick)
    /\ WF_vars(LivePostReturns)

(***************************************************************************)
(* get_adaptive_length (src/news_importance_analyzer.py:217-235).  The     *)
(* factors 1.5 and 0.8 make the result a float; the lengths of the model   *)
(* are in tenths of a character, so that base_length * 1.5 is              *)
(* 15 * base_length and the cap 900 is 9000.                               *)
(***************************************************************************)
Categories == {"critical", "high", "medium", "low"}

BaseLengths == {k * BaseStep : k \in 1..MaxBaseSteps}

Max(a, b) == IF a >= b THEN a ELSE b

\* NewsImportanceAnalyzer.get_adaptive_length, in tenths
get_adaptive_length(category, base_length) ==
    IF category = "critical" THEN Min(base_length * 20, 12000)
    ELSE IF category = "high" THEN Min(base_length * 15, 9000)
    ELSE IF category = "medium" THEN base_length * 10
    ELSE Max(base_length * 8, 4000)

\* AISummarizer with some max_summary_length
InitAdaptive ==
    /\ adaptiveOthersIdle
    /\ al_base \in BaseLengths
    /\ al_out = <<>>

\* adaptive_length = get_adaptive_length(importance, self.max_length) for
\* an item of the category
GetAdaptiveLength(category) ==
    /\ category \notin DOMAIN al_out
    /\ al_out' = [c \in DOMAIN al_out \cup {category} |->
                     IF c = category THEN get_adaptive_length(c, al_base)
                     ELSE al_out[c]]
    /\ UNCHANGED <<adaptiveFrame, al_base>>

NextAdaptive == \E category \in Categories : GetAdaptiveLength(category)

SpecAdaptive == InitAdaptive /\ [][NextAdaptive]_vars

(***************************************************************************)
(* Properties of the pipeline (Spec).                                      *)
(***************************************************************************)

\* a step in which a collection cycle ends (its enqueue step)
CycleEnds == pcCollect' = "idle" /\ (pcCollect # "idle" \/ cycles' # cycles)

\* a step in which a post tick starts
TickStarts == ticks' = ticks + 1

\* a step in which the post task resumes from post_news_item
PostResumes == pcPost = "posting" /\ pcPost' = "idle"

\* a step in which the urgent path resumes from post_news_item
UrgentResumes == pcCollect = "urgent_post" /\ urgent_tried' # urgent_tried

Published(led) == {i \in Items : is_published(led, i)}

\* the last n entries of a list
LastN(q, n) == IF Len(q) <= n THEN q ELSE SubSeq(q, Len(q) - n + 1, Len(q))

\* C1: the publish sink succeeds at most once for any (id, source) pair,
\* across any sequence of collection cycles and post ticks.
C1_PublishedAtMostOnce == \A i \in Items : sink_ok[i] <= 1

\* C2: mark_published is called for an item only after a publish of that
\* item succeeded: every call follows a successful publish of the same item
\* in the same step and leaves the item in the ledger, every successful
\* publish is followed by exactly one call, and a failed publish attempt
\* adds no row to the ledger and makes no call (so a failure followed by a
\* successful retry gives exactly one call, after the second attempt).
C2_MarkFollowsPublish ==
    \A i \in Items :
        /\ mark_calls'[i] # mark_calls[i] =>
              /\ mark_calls'[i] = mark_calls[i] + 1
              /\ sink_ok'[i] = sink_ok[i] + 1
              /\ is_published(ledger', i)
        /\ sink_ok'[i] # sink_ok[i] => mark_calls'[i] = mark_calls[i] + 1

C2_FailureLeavesLedger ==
    /\ (PostResumes /\ errors_count' # errors_count) =>
          (ledger' = ledger /\ mark_calls' = mark_calls)
    /\ (UrgentResumes /\ errors_count' # errors_count) =>
          (Published(ledger') \subseteq Published(ledger) /\ mark_calls' = mark_calls)

C2_MarkOnlyAfterPublish ==
    /\ [](\A i \in Items : mark_calls[i] = sink_ok[i])
    /\ [][C2_MarkFollowsPublish /\ C2_FailureLeavesLedger]_vars

\* C2 witness: one cycle enqueued one item, its first publish failed and the
\* retry on the next tick succeeded; the ledger got one call.
C2_Witness ==
    /\ ~config.ai_enabled
    /\ cycles = 1
    /\ Len(selected_items) = 1
    /\ post_attempts = 2
    /\ errors_count = 1
    /\ posted_count = 1
    /\ pcPost = "idle"
    /\ mark_calls[selected_items[1]] = 1
    /\ is_published(ledger, selected_items[1])

\* C3: an entry is requeued once: an entry that was requeued and fails again
\* is dropped, so no entry in the queue has failed more than once.
C3_RequeuedAtMostOnce == \A k \in 1..Len(post_queue) : post_queue[k].tries <= 1

\* C4: the queue never holds more entries than the configured capacity
\* posting.max_queue_size.
C4_QueueWithinConfiguredCapacity == Len(post_queue) <= config.max_queue_size

\* C5: when a cycle enqueues into a deque of capacity N the entries pushed
\* out are the oldest ones (the head): after the enqueue step the queue is
\* the last N entries of the old queue followed by the selected items, in
\* their enqueue order.
C5_EnqueueStep ==
    CycleEnds =>
        LET entries == [k \in 1..Len(selected_items') |-> Entry(selected_items'[k], 0)]
        IN post_queue' = LastN(post_queue \o entries, DequeMaxLen)

C5_EvictsOldest == [][C5_EnqueueStep]_vars

\* C5 witness: the last enqueue step pushed an entry out of a full queue.
C5_Witness ==
    /\ evicted > 0
    /\ Len(post_queue) = DequeMaxLen
    /\ selected_items # <<>>
    /\ post_queue[Len(post_queue)].item = selected_items[Len(selected_items)]

\* C6: a post tick removes at most one entry and makes at most one publish
\* attempt; on an empty queue it changes neither the queue, the ledger nor
\* the counters.
C6_TickStep ==
    /\ (TickStarts /\ post_queue = <<>>) =>
          UNCHANGED <<post_queue, ledger, posted_count, errors_count,
                      post_attempts, sink_ok, mark_calls, pcPost, inflight>>
    /\ (TickStarts /\ post_queue # <<>>) =>
          /\ post_queue' = Tail(post_queue)
          /\ post_attempts' = post_attempts + 1
    /\ PostResumes =>
          /\ post_attempts' = post_attempts
          /\ \/ post_queue' = post_queue
             \/ /\ Len(post_queue') = Len(post_queue) + 1
                /\ SubSeq(post_queue', 1, Len(post_queue)) = post_queue

C6_OnePerTick ==
    /\ [](post_attempts <= ticks)
    /\ [][C6_TickStep]_vars

\* C6 witness: two ticks have run, one found the queue empty and one took an
\* entry whose publish has returned.
C6_Witness ==
    /\ ticks = 2
    /\ post_attempts = 1
    /\ pcPost = "idle"
    /\ posted_count + errors_count = 1

\* C7: with the classifier enabled and credentials present, every item
\* judged fresh and urgent is handed to the urgent path in that same cycle,
\* before the enqueue step; an urgent publish that succeeds is recorded in
\* the ledger in the same step, and the item is not among the items the
\* cycle enqueues.
C7_CycleInv ==
    /\ pcCollect \in {"filter_check", "idle"} => urgent_judged \subseteq urgent_tried
    /\ urgent_ok \subseteq urgent_tried
    /\ \A k \in 1..Len(selected_items) : selected_items[k] \notin urgent_ok

C7_UrgentStep ==
    /\ \A i \in urgent_ok' \ urgent_ok :
          /\ is_published(ledger', i)
          /\ sink_ok'[i] = sink_ok[i] + 1
          /\ ticks' = ticks
          /\ post_queue' = post_queue
    /\ CycleEnds => urgent_judged' \subseteq urgent_tried'

C7_UrgentBypassesQueue ==
    /\ []C7_CycleInv
    /\ [][C7_UrgentStep]_vars

\* C7 witness: a cycle published one item through the urgent path and
\* enqueued another one.
C7_Witness ==
    /\ pcCollect = "idle"
    /\ config.ai_enabled
    /\ config.has_credentials
    /\ urgent_ok # {}
    /\ urgent_judged = urgent_ok
    /\ selected_items # <<>>
    /\ \A i \in urgent_ok : is_published(ledger, i)

(***************************************************************************)
(* Properties of the priority selector (SpecSelect) and of the priority    *)
(* resolution (SpecPriority).                                              *)
(***************************************************************************)

\* position of the first item of a source in a list
FirstIndex(its, source) ==
    CHOOSE k \in 1..Len(its) :
        /\ its[k].source = source
        /\ \A j \in 1..(k - 1) : its[j].source # source

SourcesOf(its) == {its[k].source : k \in 1..Len(its)}

\* C8: the selector returns at most max_sources_per_cycle items and no two
\* of them have the same source.
C8_SelectorBound ==
    sel_pc = "selected" =>
        /\ Len(sel_out) <= sel_cfg.max_sources_per_cycle
        /\ \A j, k \in 1..Len(sel_out) : j # k => sel_out[j].source # sel_out[k].source

\* C8 witness: the input holds more sources than the cap allows and the
\* selector returned exactly the cap.
C8_Witness ==
    /\ sel_pc = "selected"
    /\ sel_cfg.max_sources_per_cycle = 2
    /\ Cardinality(SourcesOf(sel_items)) = 3
    /\ Len(sel_out) = 2

\* C9: the selector returns the first item of each of the top
\* max_sources_per_cycle sources by descending priority: as many items as
\* the cap and the number of sources allow, each the first item of its
\* source, in non-increasing priority order, no unselected source above a
\* selected one, and sources of equal priority in order of first appearance.
C9_SelectorOrder ==
    sel_pc = "selected" =>
        LET prio(src) == get_source_priority(src, sel_cfg)
            chosen == SourcesOf(sel_out)
            others == SourcesOf(sel_items) \ chosen
        IN /\ Len(sel_out) = Min(sel_cfg.max_sources_per_cycle,
                                 Cardinality(SourcesOf(sel_items)))
           /\ \A k \in 1..Len(sel_out) :
                 sel_out[k] = sel_items[FirstIndex(sel_items, sel_out[k].source)]
           /\ \A j, k \in 1..Len(sel_out) :
                 j < k =>
                    /\ prio(sel_out[j].source) >= prio(sel_out[k].source)
                    /\ prio(sel_out[j].source) = prio(sel_out[k].source) =>
                          FirstIndex(sel_items, sel_out[j].source)
                             < FirstIndex(sel_items, sel_out[k].source)
           /\ \A c \in chosen, o \in others :
                 /\ prio(o) <= prio(c)
                 /\ prio(o) = prio(c) =>
                       FirstIndex(sel_items, c) < FirstIndex(sel_items, o)

\* C9 witness: a source that appears later but has a higher priority is
\* returned first, and a source of lower priority is left out.
C9_Witness ==
    /\ sel_pc = "selected"
    /\ Len(sel_out) = 2
    /\ Cardinality(SourcesOf(sel_items)) = 3
    /\ FirstIndex(sel_items, sel_out[1].source) > FirstIndex(sel_items, sel_out[2].source)
    /\ get_source_priority(sel_out[1].source, sel_cfg)
          > get_source_priority(sel_out[2].source, sel_cfg)
    /\ sel_items[1].source \notin SourcesOf(sel_out)

\* C10: a source's priority is the explicit value of its entry when the
\* entry carries one, otherwise 3, 2 or 1 by membership in the high, medium
\* or low name list, otherwise 2; an entry without a priority value whose
\* name is in the high-priority list resolves to 3.
C10_PriorityResolution ==
    sel_pc = "resolved" => prio_out = PriorityAsSpecified(prio_name, sel_cfg)

\* C15: every item that is unpublished when the freshness filter starts, and
\* still is when it returns, was returned by the filter or judged not fresh
\* by the classifier: none is dropped silently, whatever post ticks ran at
\* the filter's suspension points.
C15_NoItemSilentlyDropped == filter_dropped = {}

\* C16: the classifier calls of one cycle stay within the caps, the urgent
\* stage and the freshness filter counted together: at most
\* max_freshness_checks items have their freshness asked and at most
\* max_urgency_checks their urgency.  Stated for the first cycle of a run,
\* in which no item can be in the cache of answers yet.
C16_CallsWithinCaps ==
    cycles <= 1 =>
        /\ Cardinality(fresh_checked) <= config.max_freshness_checks
        /\ Cardinality(urgency_checked) <= config.max_urgency_checks

\* a step of the collection cycle
CycleStep == collectVars' # collectVars \/ cycles' # cycles

C19_CycleStep ==
    CycleStep =>
        IF CycleEnds
        THEN LET n == Len(selected_items')
                 m == Len(post_queue')
             IN /\ n <= m
                /\ \A k \in 1..n : post_queue'[m - n + k].item = selected_items'[k]
        ELSE post_queue' = post_queue

\* C19: a post tick never sees a half-populated queue: a cycle that is
\* still running has selected and appended nothing, and the step that ends
\* the cycle appends all its selected items at once, so a tick finds none or
\* all of them in the queue.
C19_EnqueueIsAtomic ==
    /\ [](pcCollect # "idle" => selected_items = <<>>)
    /\ [][C19_CycleStep]_vars

\* a post tick took an entry while a cycle was suspended, and the queue still
\* holds an entry of an earlier cycle
C19_Witness ==
    /\ pcCollect # "idle"
    /\ pcPost = "posting"
    /\ post_queue # <<>>

(***************************************************************************)
(* Properties of the ledger contract (SpecLedger).                         *)
(***************************************************************************)

\* a step in which mark_published was called for the pair i
Marked(i) == mark_returns'[i] # mark_returns[i]

C11_Returns ==
    \A i \in LedgerItems : \A k \in 1..Len(mark_returns[i]) :
        mark_returns[i][k] = (k = 1)

C11_PublishedAfterMark ==
    \A i \in LedgerItems : mark_returns[i] # <<>> => is_published(published, i)

C11_SecondCallStep ==
    \A i \in LedgerItems :
        Marked(i) /\ mark_returns[i] # <<>> => published' = published

\* C11: mark_published is idempotent: the first call for a pair returns True
\* and every later call returns False, is_published holds for the pair after
\* the first call, and a repeated call leaves the ledger as it was.
C11_MarkIdempotent ==
    /\ [](C11_Returns /\ C11_PublishedAfterMark)
    /\ [][C11_SecondCallStep]_vars

\* a pair was marked twice, the second time after its row had grown old
C11_Witness ==
    \E i \in LedgerItems : Len(mark_returns[i]) = 2 /\ published[i] = "old"

C12_FrameStep ==
    \A i \in LedgerItems : Marked(i) =>
        \A j \in LedgerItems \ {i} :
            is_published(published', j) = is_published(published, j)

\* C12: the ledger is keyed by (id, source): marking a pair changes
\* is_published for that pair only, so a pair that was never marked (the same
\* id under another source, another id under the same source) stays
\* unpublished.
C12_KeyedByIdAndSource ==
    /\ [](\A j \in LedgerItems : is_published(published, j) => mark_returns[j] # <<>>)
    /\ [][C12_FrameStep]_vars

\* a pair is published while the same id under another source and another
\* id under the same source are not
C12_Witness ==
    \E i, j, k \in LedgerItems :
        /\ j.id = i.id /\ j.source # i.source
        /\ k.id # i.id /\ k.source = i.source
        /\ is_published(published, i)
        /\ ~is_published(published, j)
        /\ ~is_published(published, k)

(***************************************************************************)
(* Properties of the classifier (SpecClassifier).                          *)
(***************************************************************************)

\* the last check was of this kind
LastWas(kind) == cl_last # <<>> /\ cl_last[1].kind = kind

\* the statement of C13 for all inputs: with the service down, freshness
\* answers True and urgency answers False whatever the text
C13_FailOpenAllInputs ==
    ~cl_cfg.up =>
        /\ LastWas("freshness") => cl_last[1].ret
        /\ LastWas("urgency") => ~cl_last[1].ret

\* C13: fail-open classifier: while every call to the service raises,
\* check_news_freshness returns True for every text and check_urgency returns
\* False for every text that holds no urgency keyword (a text that holds one
\* is answered True by the keyword list, without a call).
C13_FailOpen ==
    ~cl_cfg.up =>
        /\ LastWas("freshness") => cl_last[1].ret
        /\ LastWas("urgency") =>
              cl_last[1].ret = cl_last[1].text.urgent_kw

\* with the service down, two calls were made and raised, the last of them
\* by an urgency check
C13_Witness ==
    /\ ~cl_cfg.up
    /\ api_calls >= 2
    /\ LastWas("urgency")
    /\ cl_last[1].called

\* C14: with caching enabled, a check of a (kind, text) that was checked
\* before, less than the TTL ago, makes no call to the service and returns
\* what the earlier check returned.
C14_SecondCheckCached ==
    cl_cfg.cache_enabled /\ cl_last # <<>> /\ cl_last[1].known # "none" =>
        /\ ~cl_last[1].called
        /\ BoolText(cl_last[1].ret) = cl_last[1].known

\* the second check of a text whose first check called the service
C14_Witness ==
    /\ cl_cfg.cache_enabled
    /\ cl_last # <<>>
    /\ cl_last[1].known # "none"
    /\ cl_checks = 2
    /\ api_calls = 1

\* C17: lexical fast path: an urgency check of a text that holds an urgency
\* keyword and has no cached answer returns True and makes no call to the
\* service; an urgency check calls the service only for a text that holds no
\* urgency keyword.
C17_LexicalFastPath ==
    LastWas("urgency") =>
        /\ cl_last[1].text.urgent_kw /\ cl_last[1].hit = "none" =>
              cl_last[1].ret /\ ~cl_last[1].called
        /\ cl_last[1].called => ~cl_last[1].text.urgent_kw

\* an urgency check of a text with a keyword and no cached answer, made after
\* the service had been called for another text
C17_Witness ==
    /\ LastWas("urgency")
    /\ cl_last[1].text.urgent_kw
    /\ cl_last[1].hit = "none"
    /\ cl_cfg.up
    /\ api_calls >= 1


(***************************************************************************)
(* Properties of the deduplicator (SpecDedup).                             *)
(***************************************************************************)
\* total_similarity of each of the two to the other is at or above the threshold
NearDuplicates(i, j) ==
    /\ dd_sim[<<i, j>>] >= similarity_threshold
    /\ dd_sim[<<j, i>>] >= similarity_threshold

\* i and j are near-duplicates of each other and of no other item of the batch
IsolatedPair(i, j) ==
    /\ NearDuplicates(i, j)
    /\ \A k \in (1..Len(dd_batch)) \ {i, j} :
          /\ dd_sim[<<i, k>>] < similarity_threshold
          /\ dd_sim[<<k, i>>] < similarity_threshold
          /\ dd_sim[<<j, k>>] < similarity_threshold
          /\ dd_sim[<<k, j>>] < similarity_threshold

InList(list, i) == \E k \in 1..Len(list) : list[k].id = i

\* C20: deduplication keeps one representative of a duplicate cluster: when
\* two items of a batch are near-duplicates of each other and of no other
\* item, filter_duplicates on a fresh deduplicator returns exactly one of
\* them in the unique list and the other in the duplicates list.  (Stated
\* for two items whose titles have 5 characters or more.)
C20_KeepsOneRepresentative ==
    (dd_out # <<>> /\ dd_seen = {}) =>
        \A i, j \in 1..Len(dd_batch) :
            (/\ i < j
             /\ dd_batch[i].title = "long"
             /\ dd_batch[j].title = "long"
             /\ IsolatedPair(i, j))
            => \/ InList(dd_out[1].unique, i) /\ InList(dd_out[1].duplicates, j)
               \/ InList(dd_out[1].unique, j) /\ InList(dd_out[1].duplicates, i)


(***************************************************************************)
(* Properties of the collection stage (SpecCollect).                       *)
(***************************************************************************)
QueuedItems(q) == {q[k].item : k \in 1..Len(q)}

WithoutPartial(its) == SelectSeq(its, LAMBDA i : i \notin Range(g_partial))

MaxScore(i, others) ==
    IF others = {} THEN 0
    ELSE CHOOSE m \in {dd_sim[<<i, j>>] : j \in others} :
            \A j \in others : dd_sim[<<i, j>>] <= m

Others(i) == (1..Len(dd_batch)) \ {i}

TitledOthers(i) == {j \in Others(i) : dd_batch[j].title # "empty"}

\* item i has a title of 5 characters or more and the hash cache did not
\* answer for it
ScoredItem(i) ==
    /\ dd_batch[i].title = "long"
    /\ dd_results[i].reason # "hash"

\* C21 as stated: the duplicate threshold is inclusive: an item with a title
\* of at least 5 characters that the hash cache does not short-circuit is
\* classified duplicate if and only if the maximum of its scores over all
\* other items of the batch is at or above the threshold.
C21_InclusiveOverAllOthers ==
    dd_out # <<>> =>
        \A i \in 1..Len(dd_batch) :
            ScoredItem(i) =>
                (dd_results[i].is_duplicate
                    <=> MaxScore(i, Others(i)) >= similarity_threshold)

\* C21 (amended): ... if and only if the maximum of its scores over all
\* other items of the batch that have a non-empty title is at or above the
\* threshold (a maximum exactly at the threshold is a duplicate).
C21_InclusiveThreshold ==
    dd_out # <<>> =>
        \A i \in 1..Len(dd_batch) :
            ScoredItem(i) =>
                (dd_results[i].is_duplicate
                    <=> MaxScore(i, TitledOthers(i)) >= similarity_threshold)

\* an item was classified duplicate on a maximum exactly at the threshold,
\* reached on one of two other items
C21_Witness ==
    /\ dd_out # <<>>
    /\ \E i \in 1..Len(dd_batch) :
          /\ ScoredItem(i)
          /\ Cardinality(TitledOthers(i)) >= 2
          /\ \E j \in TitledOthers(i) : dd_sim[<<i, j>>] < similarity_threshold
          /\ dd_results[i].similarity_score = similarity_threshold
          /\ dd_results[i].is_duplicate

\* C22: an item whose title is empty or shorter than 5 characters is never
\* classified as duplicate and always appears in the unique output of
\* filter_duplicates, whatever the other items of the batch and whatever
\* the deduplicator has already seen.
C22_ShortTitleNeverDuplicate ==
    dd_out # <<>> =>
        \A i \in 1..Len(dd_batch) :
            dd_batch[i].title \in {"empty", "short"} =>
                /\ ~dd_results[i].is_duplicate
                /\ InList(dd_out[1].unique, i)
                /\ ~InList(dd_out[1].duplicates, i)

\* a short-titled item was kept although the deduplicator had seen its hash
\* and a long-titled item of the batch scored at the threshold against it
C22_Witness ==
    /\ dd_out # <<>>
    /\ \E i, j \in 1..Len(dd_batch) :
          /\ dd_batch[i].title = "short"
          /\ dd_batch[i].hash \in dd_seen
          /\ dd_batch[j].title = "long"
          /\ dd_results[j].reason = "similarity"
          /\ dd_sim[<<j, i>>] >= similarity_threshold
          /\ dd_results[j].is_duplicate
          /\ InList(dd_out[1].unique, i)


(***************************************************************************)
(* Properties of the importance scorer (SpecImportance).                   *)
(***************************************************************************)
\* C24: for every title and content, the score returned by
\* analyze_importance lies in [0, 1]: it is clamped at 1 from above and at
\* 0 from below.
C24_ScoreInUnitInterval ==
    imp_out # <<>> => (imp_out[1].score >= 0 /\ imp_out[1].score <= 10)

\* the word added brought one more match of a keyword of the set
OneMoreMatch(keywords) ==
    /\ imp_before # <<>>
    /\ imp_before[1].added \in keywords
    /\ Matches(keywords, imp_text) > Matches(keywords, imp_before[1].text)

\* C25: adding one more match of any keyword of the critical keyword set
\* never decreases the score returned by analyze_importance.
C25_CriticalNeverDecreases ==
    OneMoreMatch(critical_keywords) => imp_out[1].score >= imp_before[1].out.score

\* C26: for a text that already matches the low-interest keyword set at or
\* above its trigger count (3), adding one more match of any keyword of
\* that set never increases the score returned by analyze_importance.
C26_LowInterestNeverIncreases ==
    (/\ OneMoreMatch(uninteresting_us_keywords)
     /\ Matches(uninteresting_us_keywords, imp_before[1].text) >= 3)
    => imp_out[1].score <= imp_before[1].out.score


(***************************************************************************)
(* Properties of the text similarity (SpecSimilarity).                     *)
(***************************************************************************)
\* C23: the text-similarity function is symmetric: for all texts A and B,
\* _calculate_similarity(A, B) equals _calculate_similarity(B, A).
C23_SimilaritySymmetric ==
    sm_out # <<>> =>
        sm_out[1].forward.num * sm_out[1].backward.den
            = sm_out[1].backward.num * sm_out[1].forward.den


(***************************************************************************)
(* Properties of the ledger retry (SpecRetry).                             *)
(***************************************************************************)
\* the call met 'database is locked' at one of its executions
HitLocked == \E k \in 1..rt_attempts : rt_outcomes[k] = "OperationalError"

\* C27: a ledger operation that hits 'database is locked' is retried, up to
\* 3 attempts in total: once it is over, either it returned, or all 3
\* attempts were made before the error reached the caller.
C27_LockedIsRetried ==
    (rt_state = "done" /\ HitLocked) =>
        \/ rt_result = "returned"
        \/ rt_attempts = stop_after_attempt


(***************************************************************************)
(* Properties of a cycle whose ledger checks may raise (SpecFault).        *)
(***************************************************************************)
\* C28: when is_published fails for one item with a non-retryable error, the
\* failure is confined to that check: the cycle is not aborted.
C28_CheckFailureConfined == lf_failed # {} => lf_phase # "aborted"


(***************************************************************************)
(* Properties of the configuration of the running bot (SpecReload).        *)
(***************************************************************************)
\* C29: the configuration is hot-reloadable between cycles: every scheduled
\* cycle uses the configuration that was on disk when it started, so a
\* change saved between two cycles is used by the next one.
C29_NextCycleUsesSavedConfig ==
    \A k \in 1..Len(cf_cycles) : cf_cycles[k].config = cf_cycles[k].on_disk


(***************************************************************************)
(* Properties of the age filter (SpecAge).                                 *)
(***************************************************************************)
AgeCutoff == cutoff_time(ag_now, ag_max_age_hours, ag_max_age_minutes)

AgeKept(k) == ag_items[k] \in Range(ag_out[1])

\* C30: an item whose published_at is absent or cannot be parsed is never
\* rejected on age, for any max_age setting: it is returned unless the
\* keywords reject it; and an item that is rejected on age has a date that
\* parses and, as written, is older than the cutoff.
C30_UnreliableTimestampIsFresh ==
    ag_out # <<>> =>
        \A k \in 1..Len(ag_items) :
            /\ (ag_items[k].published_at.kind # "date"
                    /\ ~ag_items[k].keyword_rejected) => AgeKept(k)
            /\ (~AgeKept(k) /\ ~ag_items[k].keyword_rejected) =>
                   /\ ag_items[k].published_at.kind = "date"
                   /\ ag_items[k].published_at.time < AgeCutoff

\* an absent and an unparseable date were kept by a call with max_age 0
\* that rejected a dated item on age
C30_Witness ==
    /\ ag_out # <<>>
    /\ Len(ag_items) = 2
    /\ ag_items[1].published_at.kind \in {"absent", "unparseable"}
    /\ ag_items[2].published_at.kind = "date"
    /\ ~ag_items[1].keyword_rejected /\ ~ag_items[2].keyword_rejected
    /\ ag_max_age_minutes = <<0>>
    /\ AgeKept(1) /\ ~AgeKept(2)

(***************************************************************************)
(* Properties of the requeue and of the order of the post queue (Spec).    *)
(***************************************************************************)
\* a step in which the post task resumes from a publish that failed
PostFails == PostResumes /\ errors_count' = errors_count + 1

C31_RequeueStep ==
    PostFails =>
        /\ Len(post_queue) < DequeMaxLen =>
              /\ Len(post_queue') = Len(post_queue) + 1
              /\ SubSeq(post_queue', 1, Len(post_queue)) = post_queue
              /\ post_queue'[Len(post_queue')].item = inflight[1].item
        /\ Len(post_queue) >= DequeMaxLen => post_queue' = post_queue
        /\ Len(post_queue') <= DequeMaxLen

\* C31: when a publish fails in process_post_queue the failed entry is
\* appended at the tail only if the queue is below capacity at that moment,
\* and is dropped otherwise: the requeue evicts no entry and the queue never
\* exceeds the capacity of the deque.
C31_RequeueOnlyBelowCapacity ==
    /\ [](Len(post_queue) <= DequeMaxLen)
    /\ [][C31_RequeueStep]_vars

\* the only publish attempt of the run failed after a cycle had filled the
\* queue behind it: the failed entry is not in the queue
C31_Witness ==
    /\ ~config.ai_enabled
    /\ post_attempts = 1
    /\ errors_count = 1
    /\ pcPost = "idle"
    /\ evicted = 1
    /\ Len(post_queue) = DequeMaxLen
    /\ \A k \in 1..Len(post_queue) : post_queue[k].tries = 0

(***************************************************************************)
(* Properties of the hash set of a deduplicator (SpecDedup).               *)
(***************************************************************************)
\* the hash of item i was in the hash set when the first call reached it:
\* it was there before the call, or an earlier item of the batch with the
\* same hash was classified non-duplicate by comparison
HashKnownAt(i) ==
    \/ dd_batch[i].hash \in dd_seen
    \/ \E j \in 1..(i - 1) :
          /\ dd_batch[j].hash = dd_batch[i].hash
          /\ dd_results[j].reason = "similarity"
          /\ ~dd_results[j].is_duplicate

\* the hash set holds what it held before the call and the hashes of items
\* the call classified non-duplicate; an item with a title of 5 characters
\* or more whose hash is in the set is a duplicate with score 1.0, found
\* without comparison
C32_HashSet ==
    dd_out # <<>> =>
        /\ \A h \in dd_processed \ dd_seen :
              \E i \in 1..Len(dd_batch) :
                  dd_batch[i].hash = h /\ ~dd_results[i].is_duplicate
        /\ \A i \in 1..Len(dd_batch) :
              (dd_batch[i].title = "long" /\ HashKnownAt(i)) =>
                  dd_results[i] = SimilarityResult(10, TRUE, "hash")

\* C32 as stated: ... consequently a second filter_duplicates of the same
\* instance on the unique output of the first classifies all those items
\* as duplicates.
C32_SecondRunAllDuplicates ==
    /\ C32_HashSet
    /\ dd_again # <<>> =>
          /\ dd_again[1].unique = <<>>
          /\ Len(dd_again[1].duplicates) = Len(dd_out[1].unique)

\* C32 (amended): ... classifies all those items that have a title of at
\* least 5 characters as duplicates (with score 1.0, by their hash); the
\* items with a shorter title are unique again.
C32_SecondRunLongTitlesDuplicates ==
    /\ C32_HashSet
    /\ dd_again # <<>> =>
          \A k \in 1..Len(dd_out[1].unique) :
              IF dd_out[1].unique[k].title = "long"
              THEN dd_again_results[k] = SimilarityResult(10, TRUE, "hash")
              ELSE ~dd_again_results[k].is_duplicate

\* the second call was given two items with titles of 5 characters or more,
\* kept by comparison in the first call, and returned both as duplicates
C32_Witness ==
    /\ dd_again # <<>>
    /\ dd_seen = {}
    /\ Len(dd_out[1].unique) >= 2
    /\ \A k \in 1..Len(dd_out[1].unique) : dd_out[1].unique[k].title = "long"
    /\ Len(dd_again[1].duplicates) = Len(dd_out[1].unique)

\* what is left of the old queue after a step is its tail end, and stands at
\* the front of the new queue in the same order; whatever the step added
\* stands behind it
KeepsOrder ==
    \E d \in 0..Len(post_queue) :
        /\ Len(post_queue') >= Len(post_queue) - d
        /\ SubSeq(post_queue', 1, Len(post_queue) - d) = Drop(post_queue, d)

C33_QueueStep ==
    /\ KeepsOrder
    /\ (TickStarts /\ post_queue # <<>>) =>
          /\ inflight' = <<Head(post_queue)>>
          /\ post_queue' = Tail(post_queue)
    /\ (PostFails /\ post_queue' # post_queue) =>
          post_queue' = Append(post_queue,
                               Entry(inflight[1].item, inflight[1].tries + 1))
    /\ (PostResumes /\ ~PostFails) => post_queue' = post_queue

\* C33: the post queue is FIFO: a tick takes the entry at the head, which is
\* the oldest one still in the queue; entries are added at the tail only, a
\* requeued entry behind all entries present when its publish failed; the
\* entries that stay keep their order.
C33_QueueIsFifo == [][C33_QueueStep]_vars

\* an entry whose publish failed stands behind the entry that was enqueued
\* with it and after it
C33_Witness ==
    /\ post_attempts = 1
    /\ pcPost = "idle"
    /\ cycles = 1
    /\ Len(selected_items) = 2
    /\ Len(post_queue) = 2
    /\ post_queue[1] = Entry(selected_items[2], 0)
    /\ post_queue[2] = Entry(selected_items[1], 1)

\* C34: the post queue holds at most one entry for any (id, source): a cycle
\* never enqueues an item that is already waiting in the queue.
C34_OneEntryPerItem ==
    \A k, l \in 1..Len(post_queue) :
        k # l => post_queue[k].item # post_queue[l].item

(***************************************************************************)
(* Properties of the post tick when the ledger write may raise             *)
(* (SpecPostFault).                                                        *)
(***************************************************************************)
C35_AcceptedStep ==
    (pf_sink' # pf_sink) => pf_queue' = pf_queue

\* C35: process_post_queue puts an entry back on the queue only when the
\* publish to the sink failed: a step in which the sink accepted the message
\* leaves the queue as it is, and the post task publishes no item twice.
C35_RequeueOnlyOnSinkFailure ==
    /\ [](\A i \in Items : pf_sink[i] <= 1)
    /\ [][C35_AcceptedStep]_vars

(***************************************************************************)
(* Properties of the post task when its ticks never stop (SpecLive).       *)
(***************************************************************************)
\* C36: if post ticks keep firing, every entry that is in the queue is
\* eventually dequeued for a publish attempt unless an overflow evicts it;
\* an entry that keeps failing does not block the entries behind it.
C36_EveryEntryIsAttempted ==
    \A e \in 1..MaxLiveEntries :
        (e \in Range(lv_queue)) ~> (lv_inflight = <<e>> \/ e \in lv_evicted)

\* entry 2 is being published while entry 1, whose publish failed, waits
\* behind it
C36_Witness ==
    /\ lv_inflight = <<2>>
    /\ lv_queue = <<1>>
    /\ lv_evicted = {}

(***************************************************************************)
(* Properties of one call of filter_duplicates (SpecDedup).                *)
(***************************************************************************)
\* the place ids of a list of items of the batch
PlaceIds(its) == {its[k].id : k \in 1..Len(its)}

\* its holds items of the batch, unchanged and in the order of the batch
InBatchOrder(its) ==
    /\ \A k \in 1..Len(its) :
          its[k].id \in 1..Len(dd_batch) /\ its[k] = dd_batch[its[k].id]
    /\ \A k, l \in 1..Len(its) : k < l => its[k].id < its[l].id

\* C37: filter_duplicates partitions its input: every input item is in
\* exactly one of the two returned lists, no item is added or lost, and each
\* returned list keeps the relative order of the input.
C37_FilterPartitionsInput ==
    dd_out # <<>> =>
        /\ PlaceIds(dd_out[1].unique) \cup PlaceIds(dd_out[1].duplicates)
              = 1..Len(dd_batch)
        /\ PlaceIds(dd_out[1].unique) \cap PlaceIds(dd_out[1].duplicates) = {}
        /\ InBatchOrder(dd_out[1].unique)
        /\ InBatchOrder(dd_out[1].duplicates)

\* a batch of three items split into a duplicate between two unique items
C37_Witness ==
    /\ dd_out # <<>>
    /\ PlaceIds(dd_out[1].unique) = {1, 3}
    /\ PlaceIds(dd_out[1].duplicates) = {2}

(***************************************************************************)
(* Properties of get_adaptive_length (SpecAdaptive).                       *)
(***************************************************************************)
\* the importance categories from the least to the most important
CategoryRank(category) ==
    CASE category = "low" -> 1
      [] category = "medium" -> 2
      [] category = "high" -> 3
      [] category = "critical" -> 4

\* C38: the adaptive length is monotone in the importance category: for
\* every positive base length, a less important category is never given a
\* longer length than a more important one.
C38_LengthMonotoneInCategory ==
    \A c, d \in DOMAIN al_out :
        CategoryRank(c) >= CategoryRank(d) => al_out[c] >= al_out[d]

(***************************************************************************)
(* Properties of the classifier's cache after a failed call                *)
(* (SpecClassifier).                                                       *)
(***************************************************************************)
\* what a check returns when the service gives no response
FailOpenDefault(kind) == IF kind = "freshness" THEN "true" ELSE "false"

\* a check whose call got no response stores the default; a check of a
\* (kind, text) whose entry is such a default returns it without a call
C39_CheckStep ==
    cl_checks' = cl_checks + 1 /\ cl_cfg.cache_enabled =>
        LET last == cl_last'[1]
        IN /\ last.failed =>
                 /\ ai_cache'[last.kind][last.text] = FailOpenDefault(last.kind)
                 /\ BoolText(last.ret) = FailOpenDefault(last.kind)
           /\ <<last.kind, last.text>> \in cl_defaulted =>
                 /\ ~last.called
                 /\ BoolText(last.ret) = FailOpenDefault(last.kind)

\* C39: with caching enabled, when the call to the classifier gets no
\* response during check_news_freshness or check_urgency, the fail-open
\* default ("true" for freshness, "false" for urgency) is written to the
\* cache like an answer, and every later check of the same kind and text
\* within the TTL returns that default without a call to the classifier.
C39_FailOpenDefaultIsCached == [][C39_CheckStep]_vars

\* with the service up again, a check returned the default an earlier failed
\* call had left in the cache
C39_Witness ==
    /\ cl_cfg.cache_enabled
    /\ cl_cfg.up
    /\ cl_last # <<>>
    /\ ~cl_last[1].called
    /\ <<cl_last[1].kind, cl_last[1].text>> \in cl_defaulted
    /\ cl_checks >= 2

(***************************************************************************)
(* Properties of a failed urgent post (Spec).                              *)
(***************************************************************************)
\* the post of the first urgent item raised
UrgentPostFails == UrgentResumes /\ urgent_ok' = urgent_ok

\* a failed urgent post does not mark its item, counts one error and no
\* post, and leaves the urgent items behind it to be tried
C40_FailureStep ==
    UrgentPostFails =>
        /\ is_published(ledger', Head(urgent_items)) =>
              is_published(ledger, Head(urgent_items))
        /\ errors_count' = errors_count + 1
        /\ posted_count' = posted_count
        /\ Tail(urgent_items) # <<>> =>
              /\ urgent_items' = Tail(urgent_items)
              /\ pcCollect' = "urgent_post"

\* the items whose urgent post failed in this cycle and that are still
\* unpublished are among those the freshness filter of the cycle began with
C40_FailedStaysEligible ==
    pcCollect = "filter_check" =>
        \A i \in urgent_tried \ urgent_ok :
            ~is_published(ledger, i) => i \in Range(filter_input)

\* C40: in the urgent path, a failure to publish one urgent item leaves it
\* unmarked in the ledger, increments errors_count by one and does not
\* prevent the remaining urgent items of the cycle from being published and
\* marked; the failed item stays eligible and goes through the freshness
\* filter and selection of the same cycle.
C40_UrgentFailureIsContained ==
    /\ [][C40_FailureStep]_vars
    /\ []C40_FailedStaysEligible

\* the freshness filter runs on an item whose urgent post failed, after a
\* later urgent item of the cycle was published and marked
C40_Witness ==
    /\ pcCollect = "filter_check"
    /\ \E i \in urgent_tried \ urgent_ok :
          /\ ~is_published(ledger, i)
          /\ i \in Range(filter_input)
          /\ \E j \in urgent_ok : is_published(ledger, j)
    /\ errors_count = 1

====
